---- MODULE Spec2Model ----
(***************************************************************************)
(* Model of the schema inference and the data decoders of ps17-cli.        *)
(*                                                                         *)
(*  - the schema inference  common/arrow2/schema3.rs (parse_schema) and    *)
(*    common/schema2.rs (parse_schema, parse_schema_field_type), with the  *)
(*    Format enum and table of common/format.rs;                           *)
(*  - the columnar decoder  common/arrow2/parse_response.rs                *)
(*    (parse_response_to_arrow and the parse_field_* functions, run over   *)
(*    arrow2's mutable array builders);                                    *)
(*  - the JSON-tree decoder  common/schema2.rs  (parse_data_to_jsonl,      *)
(*    parse_xml_node_to_json, parse_xml_record_to_json) with the           *)
(*    navigator operations of common/parser.rs it calls;                   *)
(*  - the command line  cli/arguments.rs (FieldValueIn::from_str) and the  *)
(*    Get command of cli/main.rs (run_command).                            *)
(*                                                                         *)
(* An XML element is a record [tag, id, text, kids]: its tag name, the     *)
(* value of its `id` attribute, the text roxmltree's Node::text() returns  *)
(* for it, and its element children in document order.  Optional values    *)
(* (Rust's Option) are sequences of length 0 or 1.  A text is a sequence   *)
(* of one-character strings, so that trimming and parsing are computed.    *)
(***************************************************************************)
EXTENDS Integers, Sequences, FiniteSets, TLC

(***************************************************************************)
(* Option values.                                                          *)
(***************************************************************************)
None == <<>>
Some(x) == <<x>>
IsSome(o) == Len(o) = 1
IsNone(o) == Len(o) = 0
Unwrap(o) == o[1]

(***************************************************************************)
(* Texts and the primitive parsers of the Rust standard library that the   *)
(* decoders call through str::parse.                                       *)
(***************************************************************************)
Digits == <<"0", "1", "2", "3", "4", "5", "6", "7", "8", "9">>
IsDigit(c) == \E k \in 1..10 : Digits[k] = c
DigitVal(c) == (CHOOSE k \in 1..10 : Digits[k] = c) - 1
IsSpace(c) == c = " "

RECURSIVE trim_start(_)
trim_start(s) ==
    IF s # <<>> /\ IsSpace(Head(s)) THEN trim_start(Tail(s)) ELSE s

RECURSIVE trim_end(_)
trim_end(s) ==
    IF s # <<>> /\ IsSpace(s[Len(s)])
    THEN trim_end(SubSeq(s, 1, Len(s) - 1))
    ELSE s

\* str::trim
trim(s) == trim_end(trim_start(s))

AllDigits(s) == \A k \in 1..Len(s) : IsDigit(s[k])

RECURSIVE DecimalValue(_)
DecimalValue(s) ==
    IF s = <<>> THEN 0
    ELSE 10 * DecimalValue(SubSeq(s, 1, Len(s) - 1)) + DigitVal(s[Len(s)])

\* The result of a fallible conversion: [ok |-> TRUE, v |-> value] or Fail.
Fail == [ok |-> FALSE]
Ok(v) == [ok |-> TRUE, v |-> v]

RECURSIVE StripLeadingZeros(_)
StripLeadingZeros(s) ==
    IF Len(s) > 1 /\ Head(s) = "0" THEN StripLeadingZeros(Tail(s)) ELSE s

RECURSIVE DigitsLeq(_, _)
\* a <= b for two digit sequences of the same length
DigitsLeq(a, b) ==
    IF a = <<>> THEN TRUE
    ELSE IF DigitVal(Head(a)) # DigitVal(Head(b)) THEN DigitVal(Head(a)) < DigitVal(Head(b))
    ELSE DigitsLeq(Tail(a), Tail(b))

U32MaxDigits == <<"4", "2", "9", "4", "9", "6", "7", "2", "9", "5">>
I32MaxDigits == <<"2", "1", "4", "7", "4", "8", "3", "6", "4", "7">>
I32MinDigits == <<"2", "1", "4", "7", "4", "8", "3", "6", "4", "8">>

\* the digits denote a number of at most `max` (ten digits), decided on the
\* digits because TLC's integers are narrower than u32
FitsIn(digits, max) ==
    LET sig == StripLeadingZeros(digits)
    IN  Len(sig) < Len(max) \/ (Len(sig) = Len(max) /\ DigitsLeq(sig, max))

\* <u32 as FromStr>::from_str: an optional '+', then one or more digits, in range.
ParseU32(s) ==
    LET body == IF s # <<>> /\ Head(s) = "+" THEN Tail(s) ELSE s
    IN  IF body # <<>> /\ AllDigits(body) /\ FitsIn(body, U32MaxDigits)
        THEN Ok(DecimalValue(body))
        ELSE Fail

\* <i32 as FromStr>::from_str: an optional sign, then one or more digits, in range.
ParseI32(s) ==
    LET neg  == s # <<>> /\ Head(s) = "-"
        body == IF s # <<>> /\ Head(s) \in {"+", "-"} THEN Tail(s) ELSE s
    IN  IF body # <<>> /\ AllDigits(body)
           /\ FitsIn(body, IF neg THEN I32MinDigits ELSE I32MaxDigits)
        THEN Ok(IF neg THEN 0 - DecimalValue(body) ELSE DecimalValue(body))
        ELSE Fail

RECURSIVE StripZeros(_, _)
StripZeros(m, e) ==
    IF e > 0 /\ m % 10 = 0 THEN StripZeros(m \div 10, e - 1) ELSE [m |-> m, e |-> e]

DotAt(s) == IF \E k \in 1..Len(s) : s[k] = "."
            THEN CHOOSE k \in 1..Len(s) : s[k] = "."
            ELSE 0

\* <f64 as FromStr>::from_str on the decimal forms  [+-] digits [. digits]
\* (a value is m * 10^-e with trailing zeros stripped, so that "12.50" and
\* "12.5" are the same number).  The exponent, `inf` and `nan` forms of Rust's
\* grammar are not texts of this model.
ParseF64(s) ==
    LET neg  == s # <<>> /\ Head(s) = "-"
        body == IF s # <<>> /\ Head(s) \in {"+", "-"} THEN Tail(s) ELSE s
        dot  == DotAt(body)
        ip   == IF dot = 0 THEN body ELSE SubSeq(body, 1, dot - 1)
        fp   == IF dot = 0 THEN <<>> ELSE SubSeq(body, dot + 1, Len(body))
        mag  == DecimalValue(ip \o fp)
        val  == StripZeros(mag, Len(fp))
    IN  IF AllDigits(ip) /\ AllDigits(fp) /\ Len(ip) + Len(fp) > 0
        THEN Ok([val EXCEPT !.m = IF neg THEN 0 - val.m ELSE val.m])
        ELSE Fail

(***************************************************************************)
(* chrono: NaiveDateTime::parse_from_str(s, "%Y-%m-%d %H:%M:%S") on texts  *)
(* of the fixed-width shape YYYY-MM-DD HH:MM:SS, and timestamp_millis().   *)
(***************************************************************************)
Num2(s, k) == DecimalValue(SubSeq(s, k, k + 1))

IsLeap(y) == (y % 4 = 0 /\ y % 100 # 0) \/ y % 400 = 0

DaysInMonth(y, m) ==
    IF m = 2 THEN (IF IsLeap(y) THEN 29 ELSE 28)
    ELSE IF m \in {4, 6, 9, 11} THEN 30 ELSE 31

\* days since 1970-01-01 of a civil date
DaysFromCivil(y, m, d) ==
    LET yy  == IF m <= 2 THEN y - 1 ELSE y
        era == yy \div 400
        yoe == yy - era * 400
        mp  == IF m > 2 THEN m - 3 ELSE m + 9
        doy == (153 * mp + 2) \div 5 + d - 1
        doe == yoe * 365 + yoe \div 4 - yoe \div 100 + doy
    IN  era * 146097 + doe - 719468

DateShapeOk(s) ==
    /\ Len(s) = 19
    /\ \A k \in {1, 2, 3, 4, 6, 7, 9, 10, 12, 13, 15, 16, 18, 19} : IsDigit(s[k])
    /\ s[5] = "-" /\ s[8] = "-" /\ s[11] = " " /\ s[14] = ":" /\ s[17] = ":"

ParseNaiveDateTime(s) ==
    IF ~DateShapeOk(s) THEN Fail
    ELSE LET y  == DecimalValue(SubSeq(s, 1, 4))
             mo == Num2(s, 6)
             d  == Num2(s, 9)
             h  == Num2(s, 12)
             mi == Num2(s, 15)
             se == Num2(s, 18)
         IN  IF mo \in 1..12 /\ d >= 1 /\ d <= DaysInMonth(y, mo)
                /\ h < 24 /\ mi < 60 /\ se < 60
             THEN Ok([y |-> y, mo |-> mo, d |-> d, h |-> h, mi |-> mi, se |-> se])
             ELSE Fail

\* NaiveDateTime::timestamp(): whole seconds since the Unix epoch
timestamp(dt) ==
    DaysFromCivil(dt.y, dt.mo, dt.d) * 86400 + dt.h * 3600 + dt.mi * 60 + dt.se

\* NaiveDateTime::timestamp_millis()
timestamp_millis(dt) == timestamp(dt) * 1000

(***************************************************************************)
(* arrow2's mutable array builders, as far as the decoder drives them.     *)
(*   prim   : MutablePrimitiveArray / MutableUtf8Array / MutableBoolean-   *)
(*            Array; vals is the sequence of optional values.              *)
(*   list   : MutableListArray; inner is the values builder, offs the      *)
(*            offsets (starting <<0>>), valid the validity of each slot.   *)
(*   struct : MutableStructArray; values are the child builders, validity  *)
(*            is None until the first push(false).  Its length is the      *)
(*            length of its first child, and push only touches validity.   *)
(***************************************************************************)
PrimBuilder(dt) == [kind |-> "prim", dt |-> dt, vals |-> <<>>]
ListBuilder(inner) ==
    [kind |-> "list", dt |-> "List", inner |-> inner, offs |-> <<0>>, valid |-> <<>>]
StructBuilder(fields, values) ==
    [kind |-> "struct", dt |-> "Struct", fields |-> fields, values |-> values,
     validity |-> None]

RECURSIVE BuilderLen(_)
\* MutableArray::len
BuilderLen(b) ==
    CASE b.kind = "prim"   -> Len(b.vals)
      [] b.kind = "list"   -> Len(b.offs) - 1
      [] b.kind = "struct" -> IF b.values = <<>> THEN 0 ELSE BuilderLen(b.values[1])

\* MutablePrimitiveArray::push / MutableUtf8Array::try_push / push_null
PrimPush(b, o) == [b EXCEPT !.vals = Append(@, o)]

\* MutableStructArray::init_validity
init_validity(b) ==
    LET len == BuilderLen(b)
    IN  [b EXCEPT !.validity =
            Some([k \in 1..len |-> k # len])]

\* MutableStructArray::push(valid)
StructPush(b, valid) ==
    IF IsSome(b.validity)
    THEN [b EXCEPT !.validity = Some(Append(Unwrap(@), valid))]
    ELSE IF valid THEN b ELSE init_validity(b)

\* MutableListArray::try_push_valid: seal one slot ending at the inner length
try_push_valid(b) ==
    [b EXCEPT !.offs = Append(@, BuilderLen(b.inner)), !.valid = Append(@, TRUE)]

\* MutableListArray::push_null: one empty, invalid slot
ListPushNull(b) ==
    [b EXCEPT !.offs = Append(@, @[Len(@)]), !.valid = Append(@, FALSE)]

\* MutableArray::push_null, by builder kind
push_null(b) ==
    CASE b.kind = "prim"   -> PrimPush(b, None)
      [] b.kind = "list"   -> ListPushNull(b)
      [] b.kind = "struct" -> StructPush(b, FALSE)

(***************************************************************************)
(* common/arrow2/parse_response.rs: the parse_* functions.  Each returns   *)
(* [st, dst, err]: st is "ok" (Ok(())), "err" (an Err value, err naming    *)
(* its kind) or "panic" (a failed assert_eq!), dst the builder afterwards. *)
(***************************************************************************)
ROk(dst) == [st |-> "ok", dst |-> dst, err |-> "none"]
RErr(dst, kind) == [st |-> "err", dst |-> dst, err |-> kind]
RPanic(dst) == [st |-> "panic", dst |-> dst, err |-> "assert"]

parse_utf8(dst, src) ==
    IF IsSome(src) THEN ROk(PrimPush(dst, Some(Unwrap(src)))) ELSE ROk(push_null(dst))

\* parse_bool taking every text other than "1" and "0" for a null
parse_bool_lenient(dst, src) ==
    IF IsSome(src) /\ Unwrap(src) = <<"1">> THEN ROk(PrimPush(dst, Some(TRUE)))
    ELSE IF IsSome(src) /\ Unwrap(src) = <<"0">> THEN ROk(PrimPush(dst, Some(FALSE)))
    ELSE ROk(push_null(dst))

parse_bool(dst, src) ==
    IF IsNone(src) THEN ROk(push_null(dst))
    ELSE IF Unwrap(src) = <<"1">> THEN ROk(PrimPush(dst, Some(TRUE)))
    ELSE IF Unwrap(src) = <<"0">> THEN ROk(PrimPush(dst, Some(FALSE)))
    ELSE RErr(dst, "parse")

non_empty(s) ==
    IF IsNone(s) THEN None
    ELSE IF trim(Unwrap(s)) = <<>> THEN None
    ELSE Some(trim(Unwrap(s)))

\* s.parse::<A>() for the native type A of the builder
ParseNative(dt, s) ==
    CASE dt = "UInt32"  -> ParseU32(s)
      [] dt = "Int32"   -> ParseI32(s)
      [] dt = "Float64" -> ParseF64(s)

\* push Some(value) of a successful conversion, or return its error
PushParsed(dst, r) ==
    IF r.ok THEN ROk(PrimPush(dst, Some(r.v))) ELSE RErr(dst, "parse")

\* parse_from_str with row-level recovery: a text that does not parse is a null
parse_from_str_or_null(dst, src) ==
    IF IsSome(non_empty(src)) /\ ParseNative(dst.dt, Unwrap(non_empty(src))).ok
    THEN PushParsed(dst, ParseNative(dst.dt, Unwrap(non_empty(src))))
    ELSE ROk(push_null(dst))

parse_from_str(dst, src) ==
    IF IsSome(non_empty(src))
    THEN PushParsed(dst, ParseNative(dst.dt, Unwrap(non_empty(src))))
    ELSE ROk(push_null(dst))

parse_u32(dst, src) ==
    IF IsSome(src) THEN PushParsed(dst, ParseU32(Unwrap(src))) ELSE ROk(push_null(dst))

\* push Some(date.timestamp_millis()) of a parsed date, or return the error
PushDate(dst, r) ==
    IF r.ok THEN ROk(PrimPush(dst, Some(timestamp_millis(r.v)))) ELSE RErr(dst, "parse")

parse_field_date64(dst, src) ==
    IF IsSome(src.text)
    THEN PushDate(dst, ParseNaiveDateTime(Unwrap(src.text)))
    ELSE ROk(push_null(dst))

\* fields.iter().position(|x| x.name == field_name); 0 when there is none
Position(fields, name) ==
    IF \E k \in 1..Len(fields) : fields[k].name = name
    THEN CHOOSE k \in 1..Len(fields) :
            /\ fields[k].name = name
            /\ \A j \in 1..(k - 1) : fields[j].name # name
    ELSE 0

RECURSIVE parse_field(_, _)
RECURSIVE ListElements(_, _)
RECURSIVE StructSpecial(_, _, _, _)
RECURSIVE StructElements(_, _, _)
RECURSIVE StructPad(_, _, _)

\* parse_field_list, the loop  for el in elements_of(src) { parse_field(values, &el)? }
ListElements(values, els) ==
    IF els = <<>> THEN ROk(values)
    ELSE LET next(r) == IF r.st = "ok" THEN ListElements(r.dst, Tail(els)) ELSE r
         IN  next(parse_field(values, Head(els)))

\* parse_field_list sealing a null slot for an element without children
parse_field_list_null_when_empty(dst, src) ==
    LET seal(r) == IF r.st = "ok"
                   THEN ROk(IF src.kids = <<>> THEN ListPushNull(dst)
                            ELSE try_push_valid([dst EXCEPT !.inner = r.dst]))
                   ELSE [r EXCEPT !.dst = dst]
    IN  seal(ListElements(dst.inner, src.kids))

parse_field_list(dst, src) ==
    LET seal(r) == IF r.st = "ok"
                   THEN ROk(try_push_valid([dst EXCEPT !.inner = r.dst]))
                   ELSE [r EXCEPT !.dst = dst]
    IN  seal(ListElements(dst.inner, src.kids))

\* the fields parse_field_struct reads from the element's attribute and text
IsAttributeField(f) == f.name = "@id" /\ f.dt = "UInt32"
IsTextField(f) == f.name = "#text" /\ f.dt = "Utf8"

\* parse_field_struct, first loop: the "@id" and "#text" children are read from
\* the element's own attribute and text.  The result's dst is [values, any].
StructSpecial(values, fields, src, i) ==
    IF i > Len(fields) THEN ROk([values |-> values, any |-> FALSE])
    ELSE LET hit == IsAttributeField(fields[i]) \/ IsTextField(fields[i])
             last(rest) == IF rest.st # "ok" THEN rest
                           ELSE ROk([values |-> rest.dst.values,
                                     any |-> hit \/ rest.dst.any])
             next(r) == IF r.st # "ok" THEN r
                        ELSE last(StructSpecial([values EXCEPT ![i] = r.dst],
                                                fields, src, i + 1))
         IN  next(IF IsAttributeField(fields[i]) THEN parse_u32(values[i], src.id)
                  ELSE IF IsTextField(fields[i]) THEN parse_utf8(values[i], src.text)
                  ELSE ROk(values[i]))

\* parse_field_struct, second loop: every element child must name a field
StructElements(values, fields, els) ==
    IF els = <<>> THEN ROk(values)
    ELSE LET at(idx) ==
                IF idx = 0 THEN RErr(values, "unknown_field")
                ELSE LET next(r) ==
                            IF r.st = "ok"
                            THEN StructElements([values EXCEPT ![idx] = r.dst],
                                                fields, Tail(els))
                            ELSE r
                     IN  next(parse_field(values[idx], Head(els)))
         IN  at(Position(fields, Head(els).tag))

\* parse_field_struct, third loop: pad the children that did not advance
StructPad(values, initial_len, i) ==
    IF i > Len(values) THEN ROk(values)
    ELSE IF BuilderLen(values[i]) # initial_len + 1
         THEN IF BuilderLen(values[i]) # initial_len THEN RPanic(values)
              ELSE StructPad([values EXCEPT ![i] = push_null(@)], initial_len, i + 1)
         ELSE StructPad(values, initial_len, i + 1)

\* parse_field_struct, lines 255-264: pad when parsed_any, then dst.push(true)
StructFinish(dst, values, parsed_any) ==
    LET push(r) == IF r.st # "ok" THEN [r EXCEPT !.dst = dst]
                   ELSE ROk(StructPush([dst EXCEPT !.values = r.dst], TRUE))
    IN  push(IF parsed_any THEN StructPad(values, BuilderLen(dst), 1) ELSE ROk(values))

parse_field_struct(dst, src) ==
    LET elements(r1) ==
            IF r1.st # "ok" THEN [r1 EXCEPT !.dst = dst]
            ELSE LET finish(r2) ==
                        IF r2.st # "ok" THEN [r2 EXCEPT !.dst = dst]
                        ELSE StructFinish(dst, r2.dst, r1.dst.any \/ src.kids # <<>>)
                 IN  finish(StructElements(r1.dst.values, dst.fields, src.kids))
    IN  elements(StructSpecial(dst.values, dst.fields, src, 1))

parse_field(dst, src) ==
    CASE dst.dt = "Utf8"      -> parse_utf8(dst, src.text)
      [] dst.dt = "UInt32"    -> parse_from_str(dst, src.text)
      [] dst.dt = "Int32"     -> parse_from_str(dst, src.text)
      [] dst.dt = "Float64"   -> parse_from_str(dst, src.text)
      [] dst.dt = "Timestamp" -> parse_field_date64(dst, src)
      [] dst.dt = "Boolean"   -> parse_bool(dst, src.text)
      [] dst.dt = "List"      -> parse_field_list(dst, src)
      [] dst.dt = "Struct"    -> parse_field_struct(dst, src)

(***************************************************************************)
(* common/arrow2/schema3.rs and the construction of the builders.          *)
(* A Schema3 is [fields, associations]; a field is [name, data_type]; an   *)
(* association is [name, element_name, fields].                            *)
(***************************************************************************)
\* DataType::to_arrow2, as the tag parse_field dispatches on
to_arrow2(data_type) ==
    CASE data_type = "Date"             -> "Timestamp"
      [] data_type = "MultilingualUtf8" -> "List"
      [] OTHER                          -> data_type

MultilingualFields ==
    << [name |-> "@id", dt |-> "UInt32"], [name |-> "#text", dt |-> "Utf8"] >>

data_type_to_mutable_array(data_type) ==
    IF data_type = "MultilingualUtf8"
    THEN ListBuilder(StructBuilder(MultilingualFields,
                                   << PrimBuilder("UInt32"), PrimBuilder("Utf8") >>))
    ELSE PrimBuilder(to_arrow2(data_type))

association_to_mutable_array(association) ==
    ListBuilder(StructBuilder(
        [k \in 1..Len(association.fields) |->
            [name |-> association.fields[k].name,
             dt   |-> to_arrow2(association.fields[k].data_type)]],
        [k \in 1..Len(association.fields) |->
            data_type_to_mutable_array(association.fields[k].data_type)]))

associations_to_mutable_array(associations) ==
    StructBuilder(
        [k \in 1..Len(associations) |-> [name |-> associations[k].name, dt |-> "List"]],
        [k \in 1..Len(associations) |-> association_to_mutable_array(associations[k])])

(***************************************************************************)
(* The finished arrays: what MutableArray::as_box yields.  An array is the *)
(* sequence of its entries; a null entry is None, a list entry is          *)
(* Some(sequence of the items), a struct entry is Some(sequence of the     *)
(* children's entries at that index).                                      *)
(***************************************************************************)
RECURSIVE Entries(_)
Entries(b) ==
    CASE b.kind = "prim" -> b.vals
      [] b.kind = "list" ->
            LET items == Entries(b.inner)
            IN  [k \in 1..(Len(b.offs) - 1) |->
                    IF b.valid[k]
                    THEN Some(SubSeq(items, b.offs[k] + 1, b.offs[k + 1]))
                    ELSE None]
      [] b.kind = "struct" ->
            [k \in 1..BuilderLen(b) |->
                IF IsSome(b.validity) /\ k <= Len(Unwrap(b.validity))
                                      /\ ~Unwrap(b.validity)[k]
                THEN None
                ELSE Some([c \in 1..Len(b.values) |-> Entries(b.values[c])[k]])]

RECURSIVE AsBoxOk(_)
\* as_box panics (StructArray::new / ListArray::new unwrap an error) when the
\* children of a struct differ in length, when a struct's validity has another
\* length than its children, or when a list's last offset exceeds its values.
AsBoxOk(b) ==
    CASE b.kind = "prim" -> TRUE
      [] b.kind = "list" ->
            /\ AsBoxOk(b.inner)
            /\ b.offs[Len(b.offs)] <= BuilderLen(b.inner)
      [] b.kind = "struct" ->
            /\ \A c \in 1..Len(b.values) : AsBoxOk(b.values[c])
            /\ \A c \in 1..Len(b.values) : BuilderLen(b.values[c]) = BuilderLen(b)
            /\ IsSome(b.validity) => Len(Unwrap(b.validity)) = BuilderLen(b)

(***************************************************************************)
(* common/parser.rs: the navigator operations the JSON-tree decoder calls. *)
(* Each returns Ok(value) or Fail.                                         *)
(***************************************************************************)
\* Parser::named
named(p, name) == IF p.tag = name THEN Ok(p) ELSE Fail

\* Parser::attribute("id")
attribute_id(p) == IF IsSome(p.id) THEN Ok(Unwrap(p.id)) ELSE Fail

\* the operation failing on an element without children, as
\* only_same_named_children1 does
only_same_named_children_nonempty(p) ==
    IF p.kids # <<>> /\ \A k \in 1..Len(p.kids) : p.kids[k].tag = p.kids[1].tag
    THEN Ok(p.kids)
    ELSE Fail

\* Parser::only_same_named_children
only_same_named_children(p) ==
    IF \A k \in 1..Len(p.kids) : p.kids[k].tag = p.kids[1].tag
    THEN Ok(p.kids)
    ELSE Fail

\* a map that keeps the last child of each name where the code fails
uniquely_named_children_map_last(p) ==
    Ok([n \in {p.kids[k].tag : k \in 1..Len(p.kids)} |->
           p.kids[CHOOSE k \in 1..Len(p.kids) :
                     /\ p.kids[k].tag = n
                     /\ \A j \in (k+1)..Len(p.kids) : p.kids[j].tag # n]])

\* Parser::uniquely_named_children_map: the children by tag name
uniquely_named_children_map(p) ==
    IF \E a, b \in 1..Len(p.kids) : a # b /\ p.kids[a].tag = p.kids[b].tag
    THEN Fail
    ELSE Ok([n \in {p.kids[k].tag : k \in 1..Len(p.kids)} |->
                p.kids[CHOOSE k \in 1..Len(p.kids) : p.kids[k].tag = n]])

(***************************************************************************)
(* common/schema2.rs: the JSON-tree decoder.  A Type is [t |-> "Int32"],   *)
(* ..., [t |-> "Record", fields], [t |-> "List", field], [t |->            *)
(* "Language"].  A JSON value is [j |-> "null"], [j |-> "num", v],         *)
(* [j |-> "str", v], [j |-> "bool", v], [j |-> "arr", v] (a sequence) or   *)
(* [j |-> "obj", v] (a function from the keys).                            *)
(***************************************************************************)
JNull == [j |-> "null"]
JNum(v) == [j |-> "num", v |-> v]
JStr(v) == [j |-> "str", v |-> v]
JBool(v) == [j |-> "bool", v |-> v]
JArr(v) == [j |-> "arr", v |-> v]
JObj(v) == [j |-> "obj", v |-> v]

\* node().text().unwrap_or("").trim()
TrimmedText(p) == IF IsSome(p.text) THEN trim(Unwrap(p.text)) ELSE <<>>

\* Value::Number of a successful conversion, or its error
NumberOf(r) == IF r.ok THEN Ok(JNum(r.v)) ELSE Fail

\* text_to_json_number::<i32> / ::<u32>
text_to_json_number(p, t) ==
    IF TrimmedText(p) = <<>> THEN Ok(JNull) ELSE NumberOf(ParseNative(t, TrimmedText(p)))

\* schema2::parse_from_str::<f64> followed by Number::from_f64
FloatToJson(p) ==
    IF TrimmedText(p) = <<>> THEN Ok(JNull) ELSE NumberOf(ParseF64(TrimmedText(p)))

\* the Type::Bool arm of parse_xml_node_to_json
BoolToJson(p) ==
    IF IsNone(p.text) THEN Ok(JNull)
    ELSE IF Unwrap(p.text) = <<"1">> THEN Ok(JBool(TRUE))
    ELSE IF Unwrap(p.text) = <<"0">> THEN Ok(JBool(FALSE))
    ELSE Fail

\* the Type::Utf8 arm
Utf8ToJson(p) == IF IsSome(p.text) THEN Ok(JStr(Unwrap(p.text))) ELSE Ok(JNull)

\* the {language, id} object of one child
LanguageObject(language, id) ==
    JObj([k \in {"language", "id"} |-> IF k = "language" THEN language ELSE JNum(id)])

\* the body of the Type::Language loop for one child
LanguageToJson(c) ==
    IF ~named(c, "language").ok \/ ~attribute_id(c).ok THEN Fail
    ELSE LET object(id) == IF id.ok THEN Ok(LanguageObject(Utf8ToJson(c).v, id.v)) ELSE Fail
         IN  object(ParseU32(attribute_id(c).v))

\* a sequence of results: the values, or the failure of the first that failed
Cons(v, rest) == IF v.ok /\ rest.ok THEN Ok(<<v.v>> \o rest.v) ELSE Fail

\* {key: value} of a successful value
WrapIn(key, v) == IF v.ok THEN Ok(JObj([k \in {key} |-> v.v])) ELSE Fail

\* Value::Array of the values
ArrayOf(v) == IF v.ok THEN Ok(JArr(v.v)) ELSE Fail

RECURSIVE parse_xml_node_to_json(_, _)

\* parse_xml_list_field
parse_xml_list_field(p, field) ==
    IF named(p, field.name).ok
    THEN WrapIn(field.name, parse_xml_node_to_json(p, field.ty))
    ELSE Fail

\* Result::from_iter over the children of a Type::List node
RECURSIVE ListToJson(_, _)
ListToJson(cs, field) ==
    IF cs = <<>> THEN Ok(<<>>)
    ELSE Cons(parse_xml_list_field(Head(cs), field), ListToJson(Tail(cs), field))

RECURSIVE LanguagesToJson(_)
LanguagesToJson(cs) ==
    IF cs = <<>> THEN Ok(<<>>)
    ELSE Cons(LanguageToJson(Head(cs)), LanguagesToJson(Tail(cs)))

\* parse_xml_record_to_json, the loop over the declared fields: the entries of
\* the fields found among the children, as a sequence of <<name, value>>
RECURSIVE RecordEntries(_, _, _)
RecordEntries(elements, fields, k) ==
    IF k > Len(fields) THEN Ok(<<>>)
    ELSE IF fields[k].name \in DOMAIN elements
    THEN LET entry(v) == IF v.ok THEN Ok(<<fields[k].name, v.v>>) ELSE Fail
         IN  Cons(entry(parse_xml_node_to_json(elements[fields[k].name], fields[k].ty)),
                  RecordEntries(elements, fields, k + 1))
    ELSE RecordEntries(elements, fields, k + 1)

\* serde_json::Map::insert for each entry in turn: a later entry of a key wins
MapOf(entries) ==
    [n \in {entries[k][1] : k \in 1..Len(entries)} |->
        entries[CHOOSE k \in 1..Len(entries) :
                    /\ entries[k][1] = n
                    /\ \A j \in (k + 1)..Len(entries) : entries[j][1] # n][2]]

parse_xml_record_to_json(p, record) ==
    IF ~uniquely_named_children_map(p).ok THEN Fail
    ELSE LET object(es) == IF es.ok THEN Ok(JObj(MapOf(es.v))) ELSE Fail
         IN  object(RecordEntries(uniquely_named_children_map(p).v, record.fields, 1))

parse_xml_node_to_json(p, ty) ==
    CASE ty.t = "List" ->
            IF only_same_named_children(p).ok
            THEN ArrayOf(ListToJson(only_same_named_children(p).v, ty.field))
            ELSE Fail
      [] ty.t = "Language" ->
            IF only_same_named_children(p).ok
            THEN ArrayOf(LanguagesToJson(only_same_named_children(p).v))
            ELSE Fail
      [] ty.t = "Record"  -> parse_xml_record_to_json(p, ty)
      [] ty.t = "Int32"   -> text_to_json_number(p, "Int32")
      [] ty.t = "UInt32"  -> text_to_json_number(p, "UInt32")
      [] ty.t = "Float64" -> FloatToJson(p)
      [] ty.t = "Utf8"    -> Utf8ToJson(p)
      [] ty.t = "Bool"    -> BoolToJson(p)

\* parse_data_to_jsonl, the loop over the rows: one {row tag: value} per row
RECURSIVE RowsToJsonl(_, _)
RowsToJsonl(els, ty) ==
    IF els = <<>> THEN Ok(<<>>)
    ELSE Cons(WrapIn(Head(els).tag, parse_xml_node_to_json(Head(els), ty)),
              RowsToJsonl(Tail(els), ty))

\* parse_data_to_jsonl(p, schema) on the row container p.single_child()
parse_data_to_jsonl(container, s2) ==
    IF only_same_named_children(container).ok
    THEN RowsToJsonl(only_same_named_children(container).v, s2.fields[1].ty)
    ELSE Fail

\* parse_data_to_json(p, schema) on the row container p.single_child()
parse_data_to_json(container, s2) ==
    parse_xml_node_to_json(container, [t |-> "List", field |-> s2.fields[1]])

(***************************************************************************)
(* The schemas and the data documents the decoders are run on.  A scenario *)
(* is a sample document, the schemas inferred from it, as schema3          *)
(* (columnar) and as schema2 (JSON tree), and a pool of field elements; a  *)
(* row holds up to MaxKids elements of the pool in any order, a document   *)
(* up to MaxRows rows (and `more`).                                        *)
(***************************************************************************)
MaxRows == 2
MaxKids == 2

\* An element: its tag, its `id` attribute, its text (roxmltree's text(): None
\* for an element without a text node, as <a/> and <a></a> are) and its element
\* children.
El(tag, id, text, kids) == [tag |-> tag, id |-> id, text |-> text, kids |-> kids]
Leaf(tag, text) == El(tag, None, text, <<>>)

tA == <<"a">>
tC == <<"c">>
tWs == <<" ">>
t0 == <<"0">>
t1 == <<"1">>
t2 == <<"2">>
tPrice == <<"1", "2", ".", "5", "0">>
tNA == <<"N", "/", "A">>
tPadded7 == <<" ", "7", " ">>
tNeg3 == <<"-", "3">>
tX == <<"x">>
tZ == <<"z">>
tDate == <<"1", "9", "7", "0", "-", "0", "1", "-", "0", "2", " ",
           "0", "0", ":", "0", "0", ":", "0", "1">>

F3(name, data_type) == [name |-> name, data_type |-> data_type]
F2(name, ty) == [name |-> name, ty |-> ty]
P2(t) == [t |-> t]
Rec2(fields) == [t |-> "Record", fields |-> fields]

\* schema3::parse_schema and schema2::parse_schema both put `id: UInt32` first
Schema3Of(fields, associations) ==
    [fields |-> <<F3("id", "UInt32")>> \o fields, associations |-> associations]
Schema2Of(fields) ==
    [fields |-> << F2("product", Rec2(<<F2("id", P2("UInt32"))>> \o fields)) >>]

Lang(id, text) == El("language", id, text, <<>>)
Cat(kids) == El("category", None, None, kids)
Cats(kids) == El("categories", None, None, kids)
Assoc(kids) == El("associations", None, None, kids)

CategoriesAssociation(fields) ==
    [name |-> "categories", element_name |-> "category", fields |-> fields]
ImagesAssociation ==
    [name |-> "images", element_name |-> "image", fields |-> <<F3("id", "UInt32")>>]

(***************************************************************************)
(* Schema inference.  A sample document is a tree of elements carrying the *)
(* attributes the inference reads: format, nodeType and id.  An error is   *)
(* Err(ctx): ctx is Some(path) when the code attached the navigator's      *)
(* context() to it, None when the error carries no path.                   *)
(***************************************************************************)
SEl(tag, format, nodeType, id, kids) ==
    [tag |-> tag, format |-> format, nodeType |-> nodeType, id |-> id,
     text |-> None, kids |-> kids]

Err(ctx) == [ok |-> FALSE, ctx |-> ctx]

\* the characters of the tag names, for str::starts_with and str::ends_with
Spelling ==
    [
      id |-> <<"i", "d">>,
      name |-> <<"n", "a", "m", "e">>,
      price |-> <<"p", "r", "i", "c", "e">>,
      active |-> <<"a", "c", "t", "i", "v", "e">>,
      quantity |-> <<"q", "u", "a", "n", "t", "i", "t", "y">>,
      date_add |-> <<"d", "a", "t", "e", "_", "a", "d", "d">>,
      valid |-> <<"v", "a", "l", "i", "d">>,
      product |-> <<"p", "r", "o", "d", "u", "c", "t">>,
      associations |-> <<"a", "s", "s", "o", "c", "i", "a", "t", "i", "o", "n", "s">>,
      categories |-> <<"c", "a", "t", "e", "g", "o", "r", "i", "e", "s">>,
      category |-> <<"c", "a", "t", "e", "g", "o", "r", "y">>,
      images |-> <<"i", "m", "a", "g", "e", "s">>,
      image |-> <<"i", "m", "a", "g", "e">>,
      language |-> <<"l", "a", "n", "g", "u", "a", "g", "e">>,
      element |-> <<"e", "l", "e", "m", "e", "n", "t">>,
      prestashop |-> <<"p", "r", "e", "s", "t", "a", "s", "h", "o", "p">>,
      a |-> <<"a">> ]

starts_with(s, prefix) ==
    Len(s) >= Len(prefix) /\ SubSeq(s, 1, Len(prefix)) = prefix
ends_with(s, suffix) ==
    Len(s) >= Len(suffix) /\ SubSeq(s, Len(s) - Len(suffix) + 1, Len(s)) = suffix

HasIdInName(s) == starts_with(s, <<"i", "d">>) \/ ends_with(s, <<"i", "d">>)

\* common/format.rs: enum Format under #[serde(rename_all = "camelCase")],
\* by the identifier each variant is read from
FormatNames ==
    [ isBool |-> "IsBool", isFloat |-> "IsFloat", isInt |-> "IsInt",
      isJson |-> "IsJson", isNullOrUnsignedId |-> "IsNullOrUnsignedId",
      isSerializedArray |-> "IsSerializedArray", isString |-> "IsString",
      isUnsignedId |-> "IsUnsignedId", isUnsignedInt |-> "IsUnsignedInt",
      isUnsignedFloat |-> "IsUnsignedFloat", isAnything |-> "IsAnything",
      isApe |-> "IsApe", isBirthDate |-> "IsBirthDate",
      isCleanHtml |-> "IsCleanHtml", isColor |-> "IsColor",
      isDate |-> "IsDate", isDateFormat |-> "IsDateFormat",
      isEmail |-> "IsEmail", isImageSize |-> "IsImageSize",
      isIp2Long |-> "IsIp2Long", isLanguageCode |-> "IsLanguageCode",
      isLanguageIsoCode |-> "IsLanguageIsoCode",
      isLinkRewrite |-> "IsLinkRewrite", isLocale |-> "IsLocale",
      isMd5 |-> "IsMd5", isNumericIsoCode |-> "IsNumericIsoCode",
      isPasswd |-> "IsPasswd", isPasswdAdmin |-> "IsPasswdAdmin",
      isPercentage |-> "IsPercentage", isPhpDateFormat |-> "IsPhpDateFormat",
      isPriceDisplayMethod |-> "IsPriceDisplayMethod",
      isReductionType |-> "IsReductionType", isReference |-> "IsReference",
      isSha1 |-> "IsSha1", isThemeName |-> "IsThemeName",
      isTrackingNumber |-> "IsTrackingNumber", isUrl |-> "IsUrl",
      isStockManagement |-> "IsStockManagement",
      isCatalogName |-> "IsCatalogName", isCarrierName |-> "IsCarrierName",
      isConfigName |-> "IsConfigName", isCustomerName |-> "IsCustomerName",
      isGenericName |-> "IsGenericName", IsGenericName |-> "IsGenericName1",
      isImageTypeName |-> "IsImageTypeName", isModuleName |-> "IsModuleName",
      isName |-> "IsName", isTplName |-> "IsTplName",
      isAbsoluteUrl |-> "IsAbsoluteUrl", isEan13 |-> "IsEan13",
      isIsbn |-> "IsIsbn", isMpn |-> "IsMpn",
      isNegativePrice |-> "IsNegativePrice", isPrice |-> "IsPrice",
      isProductVisibility |-> "IsProductVisibility", isUpc |-> "IsUpc",
      isAddress |-> "IsAddress", isDniLite |-> "IsDniLite",
      isCityName |-> "IsCityName", isCoordinate |-> "IsCoordinate",
      isMessage |-> "IsMessage", isPhoneNumber |-> "IsPhoneNumber",
      isPostCode |-> "IsPostCode", isStateIsoCode |-> "IsStateIsoCode",
      isZipCodeFormat |-> "IsZipCodeFormat", isDateOrNull |-> "IsDateOrNull" ]

\* Format::from_string
from_string(s) == IF s \in DOMAIN FormatNames THEN Ok(FormatNames[s]) ELSE Err(None)

Utf8Formats ==
    {"IsEan13", "IsUpc", "IsIsbn", "IsDate", "IsProductVisibility", "IsString",
     "IsGenericName", "IsCatalogName", "IsCleanHtml", "IsLinkRewrite",
     "IsGenericName1", "IsMpn", "IsReference"}

\* Format::to_arrow
to_arrow(f) ==
    CASE f = "IsBool"                               -> Ok("Boolean")
      [] f \in {"IsUnsignedId", "IsUnsignedInt"}    -> Ok("UInt32")
      [] f = "IsInt"                                -> Ok("Int32")
      [] f \in {"IsUnsignedFloat", "IsPrice"}       -> Ok("Float64")
      [] f \in Utf8Formats                          -> Ok("Utf8")
      [] OTHER                                      -> Err(None)

\* schema3.rs: type_from_name
type_from_name(name) ==
    IF HasIdInName(Spelling[name]) THEN Some("UInt32")
    ELSE IF \/ starts_with(Spelling[name], <<"d", "a", "t", "e", "_">>)
            \/ ends_with(Spelling[name], <<"_", "d", "a", "t", "e">>)
         THEN Some("Date")
    ELSE None

\* schema3.rs: type_from_format
type_from_format(f) ==
    CASE f = "IsBool"                               -> Ok("Boolean")
      [] f \in {"IsUnsignedId", "IsUnsignedInt"}    -> Ok("UInt32")
      [] f = "IsInt"                                -> Ok("Int32")
      [] f \in {"IsUnsignedFloat", "IsPrice"}       -> Ok("Float64")
      [] f = "IsDateFormat"                         -> Ok("Utf8")
      [] f = "IsDate"                               -> Ok("Date")
      [] OTHER                                      -> Err(None)

\* schema3.rs: parse_format_attribute
parse_format_attribute(node) ==
    LET some(r) == IF r.ok THEN Ok(Some(r.v)) ELSE r
    IN  IF IsSome(node.format) THEN some(from_string(Unwrap(node.format)))
        ELSE Ok(None)

\* the name consulted before the format attribute
parse_simple_datatype_name_first(node) ==
    LET hint(f) == IF IsSome(type_from_name(node.tag)) THEN type_from_name(node.tag)
                   ELSE IF IsSome(f) /\ type_from_format(Unwrap(f)).ok
                   THEN Some(type_from_format(Unwrap(f)).v)
                   ELSE None
        pick(h) == IF IsSome(h) THEN Ok(Unwrap(h)) ELSE Ok("Utf8")
        after(r) == IF r.ok THEN pick(hint(r.v)) ELSE r
    IN  after(parse_format_attribute(node))

\* schema3.rs: parse_simple_datatype
parse_simple_datatype(node) ==
    LET hint(f) == IF IsSome(f) /\ type_from_format(Unwrap(f)).ok
                   THEN Some(type_from_format(Unwrap(f)).v)
                   ELSE type_from_name(node.tag)
        pick(h) == IF IsSome(h) THEN Ok(Unwrap(h)) ELSE Ok("Utf8")
        after(r) == IF r.ok THEN pick(hint(r.v)) ELSE r
    IN  after(parse_format_attribute(node))

\* the rule asking for a single child
has_single_language_child(node) ==
    /\ Len(node.kids) = 1
    /\ node.kids[1].tag = "language" /\ IsSome(node.kids[1].id)

\* schema3.rs: has_language_child
has_language_child(node) ==
    \E k \in 1..Len(node.kids) :
        node.kids[k].tag = "language" /\ IsSome(node.kids[k].id)

RECURSIVE SimpleFields(_)
\* schema3::parse_schema, lines 177-182: the fields of an association
SimpleFields(els) ==
    IF els = <<>> THEN Ok(<<>>)
    ELSE LET cons(t, rest) ==
                IF ~t.ok THEN t
                ELSE IF ~rest.ok THEN rest
                ELSE Ok(<<F3(Head(els).tag, t.v)>> \o rest.v)
         IN  cons(parse_simple_datatype(Head(els)), SimpleFields(Tail(els)))

RECURSIVE SchemaAssociations(_, _)
\* the element name taken from the association's own tag
SchemaAssociationsByOwnTag(els, s) ==
    IF els = <<>> THEN Ok(s)
    ELSE IF Head(els).kids = <<>> THEN Err(None)
    ELSE LET push(fields) ==
                IF ~fields.ok THEN fields
                ELSE SchemaAssociations(Tail(els),
                        [s EXCEPT !.associations = Append(@,
                            [name |-> Head(els).tag,
                             element_name |-> Head(els).tag,
                             fields |-> fields.v])])
         IN  push(SimpleFields(Head(els).kids[1].kids))

\* schema3::parse_schema, lines 172-188: the children of <associations>
SchemaAssociations(els, s) ==
    IF els = <<>> THEN Ok(s)
    ELSE IF Head(els).kids = <<>> THEN Err(None)
    ELSE LET push(fields) ==
                IF ~fields.ok THEN fields
                ELSE SchemaAssociations(Tail(els),
                        [s EXCEPT !.associations = Append(@,
                            [name |-> Head(els).tag,
                             element_name |-> Head(els).kids[1].tag,
                             fields |-> fields.v])])
         IN  push(SimpleFields(Head(els).kids[1].kids))

RECURSIVE SchemaNodes(_, _)
\* schema3::parse_schema, lines 171-200: the loop over the container's elements
SchemaNodes(nodes, s) ==
    IF nodes = <<>> THEN Ok(s)
    ELSE LET field(t) ==
                IF t.ok THEN Ok([s EXCEPT !.fields = Append(@, F3(Head(nodes).tag, t.v))])
                ELSE t
             then(r) == IF r.ok THEN SchemaNodes(Tail(nodes), r.v) ELSE r
         IN  then(IF Head(nodes).tag = "associations"
                  THEN SchemaAssociations(Head(nodes).kids, s)
                  ELSE IF has_language_child(Head(nodes))
                  THEN field(Ok("MultilingualUtf8"))
                  ELSE field(parse_simple_datatype(Head(nodes))))

\* the element children of the root taken as the field definitions
schema3_parse_schema_of_root(root) ==
    SchemaNodes(root.kids, [fields |-> <<F3("id", "UInt32")>>, associations |-> <<>>])

\* schema3::parse_schema, on the root element of the sample document
schema3_parse_schema(root) ==
    IF root.kids = <<>> THEN Err(None)
    ELSE SchemaNodes(root.kids[1].kids,
                     [fields |-> <<F3("id", "UInt32")>>, associations |-> <<>>])

\* common/parser.rs: a Parser is a node with the names of the elements passed
\* on the way to it
ParserNew(node) == [path |-> <<>>, node |-> node]
ChildParser(p, el) == [path |-> Append(p.path, el.tag), node |-> el]
Children(p) == [k \in 1..Len(p.node.kids) |-> ChildParser(p, p.node.kids[k])]
context(p) == Some(p.path)

\* Parser::attribute
attribute(p, name) ==
    LET a == CASE name = "format"   -> p.node.format
               [] name = "nodeType" -> p.node.nodeType
               [] name = "id"       -> p.node.id
    IN  IF IsSome(a) THEN Ok(Unwrap(a)) ELSE Err(context(p))

has_elements(p) == p.node.kids # <<>>

\* Parser::only_same_named_children1
only_same_named_children1(p) ==
    IF ~only_same_named_children(p.node).ok \/ p.node.kids = <<>>
    THEN Err(context(p))
    ELSE Ok(Children(p))

\* Parser::uniquely_named_children
uniquely_named_children(p) ==
    IF uniquely_named_children_map(p.node).ok THEN Ok(Children(p))
    ELSE Err(context(p))

\* Parser::single_child
single_child(p) ==
    IF Len(p.node.kids) # 1 THEN Err(context(p))
    ELSE Ok(ChildParser(p, p.node.kids[1]))

\* schema2.rs: Type::from_name
from_name(name) == IF HasIdInName(Spelling[name]) THEN Some(P2("UInt32")) ELSE None

\* schema2.rs: Type::from_format
from_format(f) ==
    CASE f = "IsBool"                               -> Ok(P2("Bool"))
      [] f \in {"IsUnsignedId", "IsUnsignedInt"}    -> Ok(P2("UInt32"))
      [] f = "IsInt"                                -> Ok(P2("Int32"))
      [] f \in {"IsUnsignedFloat", "IsPrice"}       -> Ok(P2("Float64"))
      [] f \in Utf8Formats                          -> Ok(P2("Utf8"))
      [] OTHER                                      -> Err(None)

\* an identifier the table does not resolve reported as an error
try_type_from_format_strict(p) ==
    LET typed(f) == IF ~f.ok THEN f
                    ELSE IF from_format(f.v).ok THEN Ok(Some(from_format(f.v).v))
                    ELSE Err(None)
    IN  IF attribute(p, "format").ok
        THEN typed(from_string(attribute(p, "format").v))
        ELSE Ok(None)

\* schema2.rs: try_type_from_format
try_type_from_format(p) ==
    LET typed(f) == IF ~f.ok THEN f
                    ELSE IF from_format(f.v).ok THEN Ok(Some(from_format(f.v).v))
                    ELSE Ok(None)
    IN  IF attribute(p, "format").ok
        THEN typed(from_string(attribute(p, "format").v))
        ELSE Ok(None)

Language(id) == [t |-> "Language", id |-> id]
List(field) == [t |-> "List", field |-> field]

\* parse_schema_field_type, lines 221-226: the node holds language entries
IsLanguageNode(p) ==
    /\ only_same_named_children1(p).ok
    /\ named(Children(p)[1].node, "language").ok
    /\ ~has_elements(Children(p)[1])
    /\ attribute(Children(p)[1], "id").ok

RECURSIVE parse_schema_field_type(_, _)
RECURSIVE RecordFields(_)
\* parse_schema_field_type, lines 242-249: a field for each child
RecordFields(children) ==
    IF children = <<>> THEN Ok(<<>>)
    ELSE LET cons(ty, rest) ==
                IF ~ty.ok THEN ty
                ELSE IF ~rest.ok THEN rest
                ELSE Ok(<<F2(Head(children).node.tag, ty.v)>> \o rest.v)
         IN  cons(parse_schema_field_type(Some(Head(children).node.tag), Head(children)),
                  RecordFields(Tail(children)))

\* schema2.rs: parse_schema_field_type
parse_schema_field_type(name, p) ==
    LET maybe_ty(fmt) == IF IsSome(fmt) THEN fmt
                         ELSE IF IsSome(name) THEN from_name(Unwrap(name))
                         ELSE None
        language(id) == IF id.ok THEN Ok(Language(id.v)) ELSE Err(None)
        item(c, ty) == IF ty.ok THEN Ok(List(F2(c.node.tag, ty.v))) ELSE ty
        list(c) == IF c.ok
                   THEN item(c.v, parse_schema_field_type(Some(c.v.node.tag), c.v))
                   ELSE c
        record(fields, maybe) ==
            IF ~fields.ok THEN fields
            ELSE IF fields.v # <<>> THEN Ok(Rec2(fields.v))
            ELSE IF IsSome(maybe) THEN Ok(Unwrap(maybe))
            ELSE Ok(P2("Utf8"))
        members(cs, maybe) == IF cs.ok THEN record(RecordFields(cs.v), maybe) ELSE cs
        body(fmt) ==
            IF ~fmt.ok THEN fmt
            ELSE IF IsLanguageNode(p)
            THEN language(ParseU32(attribute(Children(p)[1], "id").v))
            ELSE IF attribute(p, "nodeType").ok THEN list(single_child(p))
            ELSE members(uniquely_named_children(p), maybe_ty(fmt.v))
    IN  body(try_type_from_format(p))

\* the id field put after the declared fields
insert_id_field_last(s) ==
    IF s.fields[1].ty.t = "Record"
    THEN Ok([fields |->
               <<F2(s.fields[1].name,
                    Rec2(s.fields[1].ty.fields \o <<F2("id", P2("UInt32"))>>))>>
               \o Tail(s.fields)])
    ELSE Err(None)

\* schema2.rs: insert_id_field
insert_id_field(s) ==
    IF s.fields[1].ty.t = "Record"
    THEN Ok([fields |->
               <<F2(s.fields[1].name,
                    Rec2(<<F2("id", P2("UInt32"))>> \o s.fields[1].ty.fields))>>
               \o Tail(s.fields)])
    ELSE Err(None)

\* schema2::parse_schema, on Parser::new(root element of the sample document)
schema2_parse_schema(root) ==
    LET record(ty) == IF ~ty.ok THEN ty
                      ELSE IF ty.v.t = "Record"
                      THEN insert_id_field([fields |-> ty.v.fields])
                      ELSE Err(None)
    IN  record(parse_schema_field_type(None, ParserNew(root)))

\* sample documents: <prestashop><product> field definitions </product></prestashop>
S(tag, kids) == SEl(tag, None, None, None, kids)
SF(tag, format) == SEl(tag, Some(format), None, None, <<>>)
SList(tag, nodeType, kids) == SEl(tag, None, Some(nodeType), None, kids)
SLanguage(id) == SEl("language", None, None, Some(id), <<>>)
Sample(fields) == S("prestashop", <<S("product", fields)>>)

\* no schema: the inference fails on the sample
NoSchema == [fields |-> <<>>]

Scenarios == <<
    \* 1: test_parse_simple_response, with an undeclared element
    [schema3 |-> Schema3Of(<<F3("name", "Utf8")>>, <<>>),
     schema2 |-> Schema2Of(<<F2("name", P2("Utf8"))>>),
     sample  |-> Sample(<<S("name", <<>>)>>),
     row |-> "product", more |-> 0,
     pool    |-> << Leaf("name", Some(tA)), Leaf("name", Some(tC)),
                    Leaf("name", None), Leaf("zzz", Some(tA)) >>],
    \* 2: <price format="isPrice"/>
    [schema3 |-> Schema3Of(<<F3("price", "Float64")>>, <<>>),
     schema2 |-> Schema2Of(<<F2("price", P2("Float64"))>>),
     sample  |-> Sample(<<SF("price", "isPrice")>>),
     row |-> "product", more |-> 0,
     pool    |-> << Leaf("price", Some(tPrice)), Leaf("price", None),
                    Leaf("price", Some(tWs)), Leaf("price", Some(tNA)) >>],
    \* 3: <active format="isBool"/>
    [schema3 |-> Schema3Of(<<F3("active", "Boolean")>>, <<>>),
     schema2 |-> Schema2Of(<<F2("active", P2("Bool"))>>),
     sample  |-> Sample(<<SF("active", "isBool")>>),
     row |-> "product", more |-> 0,
     pool    |-> << Leaf("active", Some(t1)), Leaf("active", Some(t0)),
                    Leaf("active", None), Leaf("active", Some(tWs)),
                    Leaf("active", Some(t2)) >>],
    \* 4: the synthetic id and <quantity format="isInt"/>
    [schema3 |-> Schema3Of(<<F3("quantity", "Int32")>>, <<>>),
     schema2 |-> Schema2Of(<<F2("quantity", P2("Int32"))>>),
     sample  |-> Sample(<<SF("quantity", "isInt")>>),
     row |-> "product", more |-> 0,
     pool    |-> << Leaf("id", Some(tPadded7)), Leaf("id", Some(tNeg3)),
                    Leaf("quantity", Some(tNeg3)), Leaf("quantity", Some(tA)) >>],
    \* 5: <date_add format="isDate"/>: a Date for schema3, Utf8 for schema2
    [schema3 |-> Schema3Of(<<F3("date_add", "Date")>>, <<>>),
     schema2 |-> Schema2Of(<<F2("date_add", P2("Utf8"))>>),
     sample  |-> Sample(<<SF("date_add", "isDate")>>),
     row |-> "product", more |-> 0,
     pool    |-> << Leaf("date_add", Some(tDate)), Leaf("date_add", None),
                    Leaf("date_add", Some(tWs)), Leaf("date_add", Some(tNA)) >>],
    \* 6: test_parse_multilingual_field
    [schema3 |-> Schema3Of(<<F3("name", "MultilingualUtf8")>>, <<>>),
     schema2 |-> Schema2Of(<<F2("name", Language(1))>>),
     sample  |-> Sample(<<S("name", <<SLanguage(t1)>>)>>),
     row |-> "product", more |-> 0,
     pool    |-> << El("name", None, Some(tWs), <<Lang(Some(t1), Some(tA)),
                                                   Lang(Some(t2), Some(tC))>>),
                    El("name", None, None, <<>>),
                    El("name", None, Some(tWs), <<Lang(Some(t1), Some(tA)),
                                                   El("other", Some(t2), Some(tC), <<>>)>>),
                    El("name", None, Some(tWs), <<Lang(Some(tA), Some(tA))>>),
                    El("name", None, Some(tWs),
                       <<El("language", Some(t1), None, <<Leaf("b", Some(tA))>>)>>) >>],
    \* 7: test_parse_associations: one association with one field
    [schema3 |-> Schema3Of(<<>>, <<CategoriesAssociation(<<F3("id", "UInt32")>>)>>),
     schema2 |-> Schema2Of(<<F2("associations", Rec2(<<F2("categories",
                    [t |-> "List",
                     field |-> F2("category", Rec2(<<F2("id", P2("UInt32"))>>))])>>))>>),
     sample  |-> Sample(<<S("associations", <<SList("categories", "category",
                    <<S("category", <<S("id", <<>>)>>)>>)>>)>>),
     row |-> "product", more |-> 0,
     pool    |-> << Assoc(<<Cats(<<Cat(<<Leaf("id", Some(t1))>>),
                                   Cat(<<Leaf("id", Some(t2))>>)>>)>>),
                    Assoc(<<>>),
                    Assoc(<<Cats(<<>>)>>),
                    Assoc(<<Cats(<<Cat(<<>>), Cat(<<Leaf("id", Some(t1))>>)>>)>>),
                    Assoc(<<Cats(<<Cat(<<Leaf("zzz", Some(t1))>>)>>)>>) >>],
    \* 8: two associations, the first with two fields
    [schema3 |-> Schema3Of(<<>>, <<CategoriesAssociation(<<F3("id", "UInt32"),
                                                           F3("name", "Utf8")>>),
                                   ImagesAssociation>>),
     schema2 |-> Schema2Of(<<F2("associations", Rec2(<<
                    F2("categories",
                       [t |-> "List",
                        field |-> F2("category", Rec2(<<F2("id", P2("UInt32")),
                                                        F2("name", P2("Utf8"))>>))]),
                    F2("images",
                       [t |-> "List",
                        field |-> F2("image", Rec2(<<F2("id", P2("UInt32"))>>))])>>))>>),
     sample  |-> Sample(<<S("associations", <<
                    SList("categories", "category",
                          <<S("category", <<S("id", <<>>), S("name", <<>>)>>)>>),
                    SList("images", "image", <<S("image", <<S("id", <<>>)>>)>>)>>)>>),
     row |-> "product", more |-> 0,
     pool    |-> << Assoc(<<Cats(<<Cat(<<Leaf("name", Some(tA))>>)>>)>>),
                    Assoc(<<El("images", None, None,
                               <<El("image", None, None, <<Leaf("id", Some(t2))>>)>>),
                            Cats(<<Cat(<<Leaf("id", Some(t1)), Leaf("name", Some(tC))>>)>>)>>),
                    Assoc(<<Cats(<<>>), Cats(<<>>)>>),
                    Assoc(<<Cats(<<Cat(<<Leaf("id", Some(t1)),
                                         Leaf("id", Some(t2))>>)>>)>>),
                    Assoc(<<Cats(<<Cat(<<Leaf("id", Some(tNA))>>)>>)>>) >>],
    \* 9: the sample <a><element><name/></element></a>, rows <element>
    [schema3 |-> Schema3Of(<<F3("name", "Utf8")>>, <<>>),
     schema2 |-> [fields |-> << F2("element", Rec2(<<F2("id", P2("UInt32")),
                                                     F2("name", P2("Utf8"))>>)) >>],
     sample  |-> S("a", <<S("element", <<S("name", <<>>)>>)>>),
     row |-> "element", more |-> 1,
     pool    |-> << Leaf("name", Some(tX)), Leaf("name", Some(tZ)) >>],
    \* 10: the sample <a><name/></a>, rows <element>
    [schema3 |-> Schema3Of(<<>>, <<>>),
     schema2 |-> NoSchema,
     sample  |-> S("a", <<S("name", <<>>)>>),
     row |-> "element", more |-> 1,
     pool    |-> << Leaf("name", Some(tX)), Leaf("name", Some(tZ)) >>],
    \* 11: a sample that declares <id/> itself
    [schema3 |-> Schema3Of(<<F3("id", "UInt32"), F3("name", "Utf8")>>, <<>>),
     schema2 |-> Schema2Of(<<F2("id", P2("UInt32")), F2("name", P2("Utf8"))>>),
     sample  |-> Sample(<<S("id", <<>>), S("name", <<>>)>>),
     row |-> "product", more |-> 0,
     pool    |-> << Leaf("id", Some(t1)), Leaf("name", Some(tA)) >>],
    \* 12: <valid format="isString"/>: Utf8 by its format, UInt32 by its name
    [schema3 |-> Schema3Of(<<F3("valid", "UInt32")>>, <<>>),
     schema2 |-> Schema2Of(<<F2("valid", P2("Utf8"))>>),
     sample  |-> Sample(<<SF("valid", "isString")>>),
     row |-> "product", more |-> 0,
     pool    |-> << Leaf("valid", Some(tPadded7)), Leaf("valid", Some(t1)),
                    Leaf("valid", None) >>]
>>

Range(f) == {f[k] : k \in DOMAIN f}

\* the rows of a scenario: up to MaxKids pool elements in any order
RowSet(k) ==
    {El(Scenarios[k].row, None, None, ks) :
        ks \in UNION {[1..n -> Range(Scenarios[k].pool)] : n \in 0..MaxKids}}

(***************************************************************************)
(* The state.                                                              *)
(*   sc    the scenario: the schema the document is decoded with           *)
(*   rows  the row elements of the document read so far, in order          *)
(*   h     parse_response_to_arrow's map  column name -> (index, builder)  *)
(*   lens  after each completed row, the set of the builders' lengths      *)
(*   pc    "rows" while parse_response_to_arrow iterates over the rows,    *)
(*         "done" once it returned Ok(chunk), "err" once it returned Err,  *)
(*         "panic" once an assertion or an unwrap failed                   *)
(*   err   the kind of the Err returned                                    *)
(*   batch the arrays of the returned chunk                                *)
(*   jl    the result of parse_data_to_jsonl on the same document          *)
(*   jt    the result of parse_data_to_json on the same document           *)
(*   sample  the sample document the schema is inferred from               *)
(*   s3    the result of schema3::parse_schema on the sample               *)
(*   s2    the result of schema2::parse_schema on the sample               *)
(*   cli   the run of the command-line program: its arguments, its        *)
(*         position in run_command, the requests sent, the output written  *)
(***************************************************************************)
VARIABLES sc, rows, h, lens, pc, err, batch, jl, jt, sample, s3, s2, cli

vars == <<sc, rows, h, lens, pc, err, batch, jl, jt, sample, s3, s2, cli>>

\* the schemas the decoders are run with: the ones inferred from the sample
schema == s3.v
schema2 == s2.v

HasAssociations(s) == s.associations # <<>>

\* parse_response_to_arrow, lines 292-305: the builders by column name.  A
\* later field of the same name replaces the earlier entry of the map.
NewBuilders(s) ==
    LET names  == {s.fields[k].name : k \in 1..Len(s.fields)}
        last(n) == CHOOSE k \in 1..Len(s.fields) :
                      /\ s.fields[k].name = n
                      /\ \A j \in (k + 1)..Len(s.fields) : s.fields[j].name # n
        hf == [n \in names |->
                 [i |-> last(n) - 1,
                  array |-> data_type_to_mutable_array(s.fields[last(n)].data_type)]]
    IN  IF HasAssociations(s)
        THEN [n \in names \cup {"associations"} |->
                IF n = "associations"
                THEN [i |-> Cardinality(names),
                      array |-> associations_to_mutable_array(s.associations)]
                ELSE hf[n]]
        ELSE hf

RECURSIVE RowFields(_, _)
\* lines 307-314: every element child of the row must name a column
RowFields(hh, els) ==
    IF els = <<>> THEN ROk(hh)
    ELSE IF Head(els).tag \notin DOMAIN hh THEN RErr(hh, "unknown_field")
    ELSE LET next(r) ==
                IF r.st = "ok"
                THEN RowFields([hh EXCEPT ![Head(els).tag].array = r.dst], Tail(els))
                ELSE [r EXCEPT !.dst = hh]
         IN  next(parse_field(hh[Head(els).tag].array, Head(els)))

\* lines 315-321: pad the columns the row did not advance
RowPad(hh, i) ==
    IF \E n \in DOMAIN hh : BuilderLen(hh[n].array) \notin {i, i + 1}
    THEN RPanic(hh)
    ELSE ROk([n \in DOMAIN hh |->
                IF BuilderLen(hh[n].array) = i
                THEN [hh[n] EXCEPT !.array = push_null(@)]
                ELSE hh[n]])

\* the body of the loop over the rows, for row number i (from 0)
DecodeRow(hh, i, el) ==
    LET pad(r) == IF r.st = "ok" THEN RowPad(r.dst, i) ELSE r
    IN  pad(RowFields(hh, el.kids))

\* lines 323-334: the arrays in index order; None where as_box or Chunk::new
\* panics (Chunk::new requires arrays of one length)
ArrayLen(b) == BuilderLen(b)

\* the arrays taken as the map yields them, here by descending index, and not
\* placed by their index
FinishedInMapOrder(hh) ==
    LET idx == {hh[n].i : n \in DOMAIN hh}
        at(k) == CHOOSE n \in DOMAIN hh :
                    Cardinality({j \in idx : j > hh[n].i}) = k - 1
    IN  IF /\ \A n \in DOMAIN hh : AsBoxOk(hh[n].array)
           /\ \A n, m \in DOMAIN hh : ArrayLen(hh[n].array) = ArrayLen(hh[m].array)
        THEN Some([k \in 1..Cardinality(idx) |-> Entries(hh[at(k)].array)])
        ELSE None

Finished(hh) ==
    LET idx == {hh[n].i : n \in DOMAIN hh}
        at(k) == CHOOSE n \in DOMAIN hh :
                    Cardinality({j \in idx : j < hh[n].i}) = k - 1
    IN  IF /\ \A n \in DOMAIN hh : AsBoxOk(hh[n].array)
           /\ \A n, m \in DOMAIN hh : ArrayLen(hh[n].array) = ArrayLen(hh[m].array)
        THEN Some([k \in 1..Cardinality(idx) |-> Entries(hh[at(k)].array)])
        ELSE None

Container(els) == El("products", None, None, els)

NoResult == [st |-> "none"]
\* no command line is being run
NoCommand == [pc |-> "none"]
JResult(r) == IF r.ok THEN [st |-> "ok", v |-> r.v] ELSE [st |-> "err"]

Init ==
    /\ sc \in 1..Len(Scenarios)
    /\ sample = Scenarios[sc].sample
    /\ s3 = schema3_parse_schema(sample)
    /\ s2 = schema2_parse_schema(sample)
    /\ rows = <<>>
    /\ h = NewBuilders(s3.v)
    /\ lens = <<>>
    /\ pc = "rows"
    /\ err = "none"
    /\ batch = <<>>
    /\ jl = NoResult
    /\ jt = NoResult
    /\ cli = NoCommand

\* parse_response_to_arrow decodes the next row element of the document
ProcessRow ==
    /\ pc = "rows"
    /\ Len(rows) < MaxRows + Scenarios[sc].more
    /\ \E el \in RowSet(sc) :
         LET step(r) ==
                /\ rows' = Append(rows, el)
                /\ h' = r.dst
                /\ pc' = (IF r.st = "ok" THEN "rows" ELSE r.st)
                /\ err' = r.err
                /\ lens' = IF r.st = "ok"
                           THEN Append(lens, {BuilderLen(r.dst[n].array) : n \in DOMAIN r.dst})
                           ELSE lens
         IN  step(DecodeRow(h, Len(rows), el))
    /\ UNCHANGED <<sc, batch, jl, jt, sample, s3, s2, cli>>

\* the rows are exhausted: parse_response_to_arrow builds and returns the chunk
Finish ==
    /\ pc = "rows"
    /\ LET ret(f) ==
              IF IsSome(f)
              THEN pc' = "done" /\ batch' = Unwrap(f) /\ err' = err
              ELSE pc' = "panic" /\ batch' = batch /\ err' = "assert"
       IN  ret(Finished(h))
    /\ UNCHANGED <<sc, rows, h, lens, jl, jt, sample, s3, s2, cli>>

\* the same document through schema2::parse_data_to_jsonl, with the schema
\* inferred from the sample; without a schema nothing is decoded
JsonLines ==
    /\ pc # "rows"
    /\ jl = NoResult
    /\ jl' = IF s2.ok THEN JResult(parse_data_to_jsonl(Container(rows), schema2))
              ELSE [st |-> "err"]
    /\ UNCHANGED <<sc, rows, h, lens, pc, err, batch, jt, sample, s3, s2, cli>>

\* the same document through schema2::parse_data_to_json
JsonTree ==
    /\ jl # NoResult
    /\ jt = NoResult
    /\ jt' = IF s2.ok THEN JResult(parse_data_to_json(Container(rows), schema2))
              ELSE [st |-> "err"]
    /\ UNCHANGED <<sc, rows, h, lens, pc, err, batch, jl, sample, s3, s2, cli>>

Next == ProcessRow \/ Finish \/ JsonLines \/ JsonTree

Spec == Init /\ [][Next]_vars

(***************************************************************************)
(* The inference alone, on a wider set of sample documents: a field        *)
(* definition of every tag, format attribute and shape, pairs of field     *)
(* definitions, <associations>, and documents without the container or     *)
(* without field definitions.                                              *)
(***************************************************************************)
SampleTags == {"name", "id", "valid", "date_add", "price"}

\* no format attribute, every identifier of the enum, and two strings that are
\* no identifier
SampleFormats ==
    {None} \cup {Some(f) : f \in DOMAIN FormatNames \cup {"bogus", "IsBool"}}

CategorySample(fields) == SList("categories", "category", <<S("category", fields)>>)

SampleShapes ==
    { [nodeType |-> None, kids |-> <<>>],
      [nodeType |-> None, kids |-> <<SLanguage(t1)>>],
      [nodeType |-> None, kids |-> <<SLanguage(t1), SLanguage(t2)>>],
      [nodeType |-> None, kids |-> <<SLanguage(tA)>>],
      [nodeType |-> None, kids |-> <<S("language", <<>>)>>],
      [nodeType |-> None, kids |-> <<SLanguage(t1), S("image", <<>>)>>],
      [nodeType |-> None,
       kids |-> <<SEl("language", None, None, Some(t1), <<S("name", <<>>)>>)>>],
      [nodeType |-> Some("category"),
       kids |-> <<S("category", <<S("id", <<>>), S("name", <<>>)>>)>>],
      [nodeType |-> Some("category"),
       kids |-> <<S("category", <<>>), S("category", <<>>)>>],
      [nodeType |-> None, kids |-> <<S("id", <<>>), SF("name", "isString")>>],
      [nodeType |-> None, kids |-> <<S("name", <<>>), S("name", <<>>)>>] }

FieldSamples ==
    { SEl(tag, format, shape.nodeType, None, shape.kids) :
        tag \in SampleTags, format \in SampleFormats, shape \in SampleShapes }

AssociationsSamples ==
    { S("associations", kids) : kids \in
        { <<CategorySample(<<S("id", <<>>), SF("name", f)>>)>> :
              f \in {"isString", "isBool", "isDate", "bogus"} }
        \cup { <<S("categories", <<>>)>>,
               <<CategorySample(<<S("id", <<>>), S("id", <<>>)>>)>>,
               <<CategorySample(<<S("name", <<SLanguage(t1)>>)>>)>>,
               <<S("categories", <<S("category", <<S("id", <<>>)>>),
                                   S("image", <<S("name", <<>>)>>)>>)>>,
               <<CategorySample(<<S("id", <<>>)>>),
                 SList("images", "image", <<S("image", <<S("id", <<>>)>>)>>)>>,
               <<CategorySample(<<S("id", <<>>)>>),
                 CategorySample(<<S("name", <<>>)>>)>> } }

PairedSamples ==
    { S("id", <<>>), S("name", <<>>), SF("price", "isPrice"),
      S("associations", <<CategorySample(<<S("id", <<>>)>>)>>) }

Samples ==
    { Sample(<<n>>) : n \in FieldSamples \cup AssociationsSamples }
    \cup { Sample(<<a, b>>) : a, b \in PairedSamples }
    \cup { S("a", <<S("name", <<>>)>>),
           S("a", <<>>),
           Sample(<<>>),
           S("prestashop", <<S("product", <<S("name", <<>>)>>),
                             S("category", <<S("id", <<>>)>>)>>) }

InitInference ==
    /\ sample \in Samples
    /\ s3 = NoResult
    /\ s2 = NoResult
    /\ sc = 0
    /\ rows = <<>>
    /\ h = <<>>
    /\ lens = <<>>
    /\ pc = "schema"
    /\ err = "none"
    /\ batch = <<>>
    /\ jl = NoResult
    /\ jt = NoResult
    /\ cli = NoCommand

\* ws_get_resource_schema3: schema3::parse_schema on the sample document
InferSchema3 ==
    /\ s3 = NoResult
    /\ s3' = schema3_parse_schema(sample)
    /\ UNCHANGED <<sc, rows, h, lens, pc, err, batch, jl, jt, sample, s2, cli>>

\* ws_get_resource_schema2: schema2::parse_schema on the sample document
InferSchema2 ==
    /\ s2 = NoResult
    /\ s2' = schema2_parse_schema(sample)
    /\ UNCHANGED <<sc, rows, h, lens, pc, err, batch, jl, jt, sample, s3, cli>>

NextInference == InferSchema3 \/ InferSchema2

SpecInference == InitInference /\ [][NextInference]_vars

\* the schemas a scenario states are the ones inferred from its sample
SchemasInferred ==
    /\ s3 = Ok(Scenarios[sc].schema3)
    /\ s2 = (IF Scenarios[sc].schema2 = NoSchema THEN Err(None)
             ELSE Ok(Scenarios[sc].schema2))

(***************************************************************************)
(* cli/arguments.rs: the value of --field-value-in.  A command-line string *)
(* is a sequence of characters; the alphabet has the three characters the  *)
(* parser tells apart and two ordinary ones.                               *)
(***************************************************************************)
MaxArgLen == 5

ArgChars == {"a", "b", "=", "|", "\\"}

ArgStrings == UNION {[1..n -> ArgChars] : n \in 0..MaxArgLen}

\* str::split_once: the parts before and after the first occurrence of c
split_once(s, c) ==
    IF \E i \in 1..Len(s) : s[i] = c
    THEN LET first(i) == Some(<<SubSeq(s, 1, i - 1), SubSeq(s, i + 1, Len(s))>>)
         IN  first(CHOOSE i \in 1..Len(s) :
                      s[i] = c /\ \A j \in 1..(i - 1) : s[j] # c)
    ELSE None

RECURSIVE ValuesLoop(_, _, _)
\* FieldValueIn::from_str, the loop over the characters after the '=':
\* the values pushed and the characters pending in tmp, or the error of a
\* backslash at the end of the input
ValuesLoop(input, tmp, values) ==
    IF input = <<>> THEN Ok([tmp |-> tmp, values |-> values])
    ELSE IF Head(input) = "\\"
    THEN IF Tail(input) = <<>> THEN Fail
         ELSE ValuesLoop(Tail(Tail(input)), Append(tmp, input[2]), values)
    ELSE IF Head(input) = "|"
    THEN ValuesLoop(Tail(input), <<>>, Append(values, tmp))
    ELSE ValuesLoop(Tail(input), Append(tmp, Head(input)), values)

\* FieldValueIn::from_str
FieldValueIn_from_str(s) ==
    LET finish(field_name, values) ==
            IF values = <<>> THEN Fail
            ELSE Ok([field_name |-> field_name, values |-> values])
        last(field_name, r) ==
            IF ~r.ok THEN Fail
            ELSE finish(field_name,
                        IF r.v.tmp # <<>> THEN Append(r.v.values, r.v.tmp)
                        ELSE r.v.values)
        parts(sp) ==
            IF IsNone(sp) THEN Fail
            ELSE IF Unwrap(sp)[1] = <<>> THEN Fail
            ELSE last(Unwrap(sp)[1], ValuesLoop(Unwrap(sp)[2], <<>>, <<>>))
    IN  parts(split_once(s, "="))

(***************************************************************************)
(* cli/main.rs: the run of the program for the Get command.  cli holds     *)
(*   pc        "args" before the arguments are parsed, "schema" before the *)
(*             schema is asked for, "data" before the data is asked for,   *)
(*             "output" before the output is written, "done" after it,     *)
(*             "exit" when the arguments were refused, "failed" when       *)
(*             run_command returned an Err, "panic" when it panicked       *)
(*   arg       the value given to --field-value-in, if any                 *)
(*   fvi       the result of FieldValueIn::from_str on it                  *)
(*   arrow2    the flag --arrow2                                           *)
(*   flatten1  the flag --flatten1                                         *)
(*   requests  the requests sent to the web service, in order              *)
(*   written   the output has been opened and written                      *)
(* The sample and the data document are what the web service answers; the  *)
(* decoders' variables hold what the decode of the data made of it.        *)
(***************************************************************************)
\* no document has been received
NoDocument == S("a", <<>>)

Command(arg, arrow2, flatten1) ==
    [pc |-> "args", arg |-> arg, fvi |-> NoResult, arrow2 |-> arrow2,
     flatten1 |-> flatten1, requests |-> <<>>, written |-> FALSE]

\* a run that goes on after a failed call
OrGoOn(r, next) == next

\* the `?` after a call of run_command: go on, or return the Err
OrReturn(r, next) == IF r.ok THEN next ELSE "failed"

\* Arguments::parse: clap hands the value of --field-value-in to
\* FieldValueIn::from_str and ends the program when it is refused
ParseArguments ==
    /\ cli.pc = "args"
    /\ LET parsed(r) ==
              cli' = [cli EXCEPT !.fvi = r,
                                 !.pc = IF r.ok THEN "schema" ELSE "exit"]
       IN  IF IsSome(cli.arg)
           THEN parsed(FieldValueIn_from_str(Unwrap(cli.arg)))
           ELSE cli' = [cli EXCEPT !.pc = "schema"]
    /\ UNCHANGED <<sc, rows, h, lens, pc, err, batch, jl, jt, sample, s3, s2>>

\* the answers of the web service to the schema request of a scenario: its
\* sample, or one with a format attribute that is no identifier
SchemaResponses(k) == {Scenarios[k].sample, Sample(<<SF("name", "bogus")>>)}

\* the answers to the data request: no row, or one row of the scenario
GetDocuments(k) == {<<>>} \cup {<<r>> : r \in RowSet(k)}

\* run_command, Command::Get, lines 83 and 94: configure_http, then
\* ws_get_resource_schema3 or ws_get_resource_schema2
GetSchema ==
    /\ cli.pc = "schema"
    /\ \/ \* configure_http fails: nothing is asked for
          /\ cli' = [cli EXCEPT !.pc = "failed"]
          /\ UNCHANGED <<sample, s3, s2>>
       \/ \* the request fails
          /\ cli' = [cli EXCEPT !.pc = "failed", !.requests = Append(@, "schema")]
          /\ UNCHANGED <<sample, s3, s2>>
       \/ \E doc \in SchemaResponses(sc) :
             LET inferred(r) ==
                    cli' = [cli EXCEPT !.pc = OrReturn(r, "data"),
                                       !.requests = Append(@, "schema")]
             IN  /\ sample' = doc
                 /\ IF cli.arrow2
                    THEN /\ s3' = schema3_parse_schema(doc)
                         /\ s2' = s2
                         /\ inferred(s3')
                    ELSE /\ s2' = schema2_parse_schema(doc)
                         /\ s3' = s3
                         /\ inferred(s2')
    /\ UNCHANGED <<sc, rows, h, lens, pc, err, batch, jl, jt>>

RECURSIVE DecodeRows(_, _, _)
\* parse_response_to_arrow, the loop over the rows from row number i
DecodeRows(hh, i, els) ==
    IF els = <<>> THEN ROk(hh)
    ELSE LET next(r) == IF r.st = "ok" THEN DecodeRows(r.dst, i + 1, Tail(els))
                        ELSE r
         IN  next(DecodeRow(hh, i, Head(els)))

\* parse_response_to_arrow on a document of the rows els: the builders at
\* the end, how it ended and the chunk returned
parse_response_to_arrow(s, els) ==
    LET chunk(r, f) ==
            IF r.st # "ok" THEN [st |-> r.st, err |-> r.err, dst |-> r.dst, batch |-> <<>>]
            ELSE IF IsSome(f)
            THEN [st |-> "done", err |-> r.err, dst |-> r.dst, batch |-> Unwrap(f)]
            ELSE [st |-> "panic", err |-> "assert", dst |-> r.dst, batch |-> <<>>]
        rows_done(r) == chunk(r, IF r.st = "ok" THEN Finished(r.dst) ELSE None)
    IN  rows_done(DecodeRows(NewBuilders(s), 0, els))

\* run_command, Command::Get, lines 84 and 95-100: ws_get_resource2_arrow2,
\* or ws_get_resource2_arrow and flatten_single_toplevel_struct.  The arrow
\* JSON decoder of the second is a library: it takes the rows or refuses them.
GetData ==
    /\ cli.pc = "data"
    /\ \/ \* the request fails
          /\ cli' = [cli EXCEPT !.pc = "failed", !.requests = Append(@, "data")]
          /\ UNCHANGED <<rows, h, pc, err, batch, jl>>
       \/ \E doc \in GetDocuments(sc) :
             /\ rows' = doc
             /\ IF cli.arrow2
                THEN LET decoded(r) ==
                            /\ h' = r.dst
                            /\ pc' = r.st
                            /\ err' = r.err
                            /\ batch' = r.batch
                            /\ cli' = [cli EXCEPT
                                  !.pc = IF r.st = "panic" THEN "panic"
                                         ELSE OrReturn([ok |-> r.st = "done"], "output"),
                                  !.requests = Append(@, "data")]
                     IN  /\ decoded(parse_response_to_arrow(s3.v, doc))
                         /\ jl' = jl
                ELSE /\ jl' = JResult(parse_data_to_jsonl(Container(doc), s2.v))
                     /\ UNCHANGED <<h, pc, err, batch>>
                     /\ \E serialized \in BOOLEAN :
                          cli' = [cli EXCEPT
                              !.pc = OrReturn([ok |-> /\ jl'.st = "ok"
                                                      /\ serialized
                                                      /\ cli.flatten1 => Len(s2.v.fields) = 1],
                                              "output"),
                              !.requests = Append(@, "data")]
    /\ UNCHANGED <<sc, lens, jt, sample, s3, s2>>

\* run_command, lines 85-92 and 101-108: the output is opened and the batch
\* written to it, or opening it fails
WriteOutput ==
    /\ cli.pc = "output"
    /\ \E opened \in BOOLEAN :
          cli' = [cli EXCEPT !.pc = IF opened THEN "done" ELSE "failed",
                             !.written = opened]
    /\ UNCHANGED <<sc, rows, h, lens, pc, err, batch, jl, jt, sample, s3, s2>>

\* the values of --field-value-in of the runs of the Get command
GetArguments == {None, Some(<<"a", "=", "a", "|", "b">>), Some(<<"a", "=">>)}

InitCommand(commands) ==
    /\ cli \in commands
    /\ sample = NoDocument
    /\ s3 = NoResult
    /\ s2 = NoResult
    /\ rows = <<>>
    /\ h = <<>>
    /\ lens = <<>>
    /\ pc = "idle"
    /\ err = "none"
    /\ batch = <<>>
    /\ jl = NoResult
    /\ jt = NoResult

\* the parsing of the arguments alone, on every string up to MaxArgLen
InitArguments ==
    /\ sc = 0
    /\ InitCommand({Command(Some(a), FALSE, FALSE) : a \in ArgStrings})

SpecArguments == InitArguments /\ [][ParseArguments]_vars

InitGet ==
    /\ sc \in 1..Len(Scenarios)
    /\ InitCommand({Command(a, arrow2, flatten1) :
                       a \in GetArguments, arrow2 \in BOOLEAN, flatten1 \in BOOLEAN})

NextGet == ParseArguments \/ GetSchema \/ GetData \/ WriteOutput

SpecGet == InitGet /\ [][NextGet]_vars

(***************************************************************************)
(* The vocabulary of the properties.                                       *)
(***************************************************************************)
\* the children of an element with a given tag, in document order
KidsNamed(el, n) == SelectSeq(el.kids, LAMBDA k : k.tag = n)

\* the names and types of the declared top-level fields
FieldNames == {schema.fields[k].name : k \in 1..Len(schema.fields)}
TypeOf(n) == schema.fields[Position(schema.fields, n)].data_type

\* the column of the returned batch that was built under a name
ColumnOf(n) == batch[1 + Cardinality({m \in DOMAIN h : h[m].i < h[n].i})]

\* what parse_field makes of one element alone, in a fresh column of its type
DecodedAlone(data_type, el) ==
    Entries(parse_field(data_type_to_mutable_array(data_type), el).dst)[1]

\* a text that is absent or all whitespace
IsBlank(t) == IsNone(t) \/ trim(Unwrap(t)) = <<>>

\* a text that is not a value of the primitive type
Unparsable(data_type, t) ==
    CASE data_type \in {"UInt32", "Int32", "Float64"} ->
            ~ParseNative(data_type, trim(Unwrap(t))).ok
      [] data_type = "Boolean" -> Unwrap(t) \notin {<<"0">>, <<"1">>}
      [] data_type = "Date"    -> ~ParseNaiveDateTime(Unwrap(t)).ok
      [] OTHER                 -> FALSE

\* a row child that is the element of a declared primitive field and holds a
\* non-blank text that does not parse
BadField(k) ==
    /\ k.tag \in FieldNames
    /\ ~IsBlank(k.text)
    /\ Unparsable(TypeOf(k.tag), k.text)

\* an `associations` element one of whose records has such a field
BadAssociation(k) ==
    /\ k.tag = "associations"
    /\ \E a \in 1..Len(schema.associations) :
       \E l \in 1..Len(k.kids) :
         /\ k.kids[l].tag = schema.associations[a].name
         /\ \E c \in 1..Len(k.kids[l].kids) :
            \E f \in 1..Len(k.kids[l].kids[c].kids) :
              LET leaf == k.kids[l].kids[c].kids[f]
                  pos  == Position(schema.associations[a].fields, leaf.tag)
              IN  /\ pos # 0
                  /\ ~IsBlank(leaf.text)
                  /\ Unparsable(schema.associations[a].fields[pos].data_type, leaf.text)

Bad(k) == BadField(k) \/ BadAssociation(k)

\* a row child whose tag names no column
UnknownChild(k) == k.tag \notin DOMAIN h

\* the law of the boolean texts
BooleanLaw(t) ==
    IF IsNone(t) THEN "null"
    ELSE IF Unwrap(t) = <<"1">> THEN "true"
    ELSE IF Unwrap(t) = <<"0">> THEN "false"
    ELSE "error"

BooleanEntry(law) ==
    CASE law = "null" -> None [] law = "true" -> Some(TRUE) [] law = "false" -> Some(FALSE)

BooleanJson(law) ==
    CASE law = "null" -> JNull [] law = "true" -> JBool(TRUE) [] law = "false" -> JBool(FALSE)

\* the children of the rows that are elements of Boolean fields, as <<row, child>>
BooleanCells ==
    {c \in (1..Len(rows)) \X (1..MaxKids) :
        /\ c[2] <= Len(rows[c[1]].kids)
        /\ rows[c[1]].kids[c[2]].tag \in FieldNames
        /\ TypeOf(rows[c[1]].kids[c[2]].tag) = "Boolean"}

\* the declared fields that are lists
ListFields == {n \in FieldNames : TypeOf(n) = "MultilingualUtf8"}

\* the builder of the `associations` column and the list of its a-th association
AssociationsBuilder == h["associations"].array
AssociationList(a) == AssociationsBuilder.values[a]

\* slot i of a struct builder exists and is not marked null
StructValidAt(b, i) ==
    /\ i <= BuilderLen(b)
    /\ \/ IsNone(b.validity)
       \/ i <= Len(Unwrap(b.validity)) /\ Unwrap(b.validity)[i]

\* slot i of a struct builder is marked null
StructNullAt(b, i) ==
    /\ IsSome(b.validity)
    /\ i <= Len(Unwrap(b.validity))
    /\ ~Unwrap(b.validity)[i]

(***************************************************************************)
(* The properties.                                                         *)
(***************************************************************************)

C3_UnknownFieldAborts ==
    \A i \in 1..Len(rows) :
        (\E k \in 1..Len(rows[i].kids) : UnknownChild(rows[i].kids[k])) =>
            /\ pc = "err" /\ batch = <<>>
            /\ jl.st # "ok"
            /\ jt.st # "ok"

\* C4: a row holding an element of a numeric, boolean or date field whose text
\* is non-blank and does not parse ends the decode without a batch, no later
\* row is decoded, and when that element is the first of the row the error is a
\* ParseError; "12.50" in a returned Float64 column is 12.5 and no text is null.
C4_ParseErrorAborts ==
    /\ \A i \in 1..Len(rows) :
          (\E k \in 1..Len(rows[i].kids) : Bad(rows[i].kids[k])) =>
              /\ i = Len(rows)
              /\ pc \in {"err", "panic"}
              /\ batch = <<>>
              /\ (\A k \in 1..Len(rows[i].kids) : BadField(rows[i].kids[k])) => pc = "err"
              /\ Bad(rows[i].kids[1]) => pc = "err" /\ err = "parse"
    /\ (pc = "done" /\ "price" \in FieldNames) =>
          \A i \in 1..Len(rows) :
              /\ KidsNamed(rows[i], "price") = <<Leaf("price", Some(tPrice))>>
                    => ColumnOf("price")[i] = Some([m |-> 125, e |-> 1])
              /\ KidsNamed(rows[i], "price") = <<Leaf("price", None)>>
                    => ColumnOf("price")[i] = None

\* C4 witness: after a decoded row, a row with price "N/A" returned a ParseError
C4_Witness ==
    /\ sc = 2 /\ pc = "err" /\ err = "parse" /\ batch = <<>>
    /\ Len(rows) = 2
    /\ rows[1].kids = <<Leaf("price", Some(tPrice))>>
    /\ rows[2].kids = <<Leaf("price", Some(tNA))>>

\* C5: a row whose only child is the element of an Int32, UInt32, Float64,
\* Boolean or Date field with absent or all-whitespace text decodes without
\* error, to a null entry.
C5_BlankIsNull ==
    \A i \in 1..Len(rows) :
        ( /\ Len(rows[i].kids) = 1
          /\ rows[i].kids[1].tag \in FieldNames
          /\ TypeOf(rows[i].kids[1].tag) \in {"Int32", "UInt32", "Float64", "Boolean", "Date"}
          /\ IsBlank(rows[i].kids[1].text) ) =>
            /\ pc # "err"
            /\ pc = "done" => ColumnOf(rows[i].kids[1].tag)[i] = None

\* C6: for the element of a Boolean field, in the columnar and in both
\* JSON-tree decoders: text "1" is true, "0" is false, no text is null, and any
\* other text fails the decode (with a ParseError in the columnar decoder when
\* nothing before it in the row failed).
C6_BooleanLaw ==
    \A c \in BooleanCells :
        LET i   == c[1]
            el  == rows[c[1]].kids[c[2]]
            law == BooleanLaw(rows[c[1]].kids[c[2]].text)
        IN  /\ law = "error" => pc = "err" /\ i = Len(rows) /\ batch = <<>>
            /\ (law = "error" /\ c[2] = 1) => err = "parse"
            /\ pc = "done" => ColumnOf(el.tag)[i] = BooleanEntry(law)
            /\ (law = "error" /\ jl.st # "none") => jl.st = "err"
            /\ (law = "error" /\ jt.st # "none") => jt.st = "err"
            /\ jl.st = "ok" => jl.v[i].v["product"].v[el.tag] = BooleanJson(law)
            /\ jt.st = "ok" => jt.v.v[i].v["product"].v[el.tag] = BooleanJson(law)

\* C6 witness: rows active=1 and active=0 were decoded by all three decoders
C6_Witness ==
    /\ sc = 3 /\ pc = "done" /\ jl.st = "ok" /\ jt.st = "ok"
    /\ Len(rows) = 2
    /\ rows[1].kids = <<Leaf("active", Some(t1))>>
    /\ rows[2].kids = <<Leaf("active", Some(t0))>>
    /\ ColumnOf("active") = <<Some(TRUE), Some(FALSE)>>

C8_StructSlotPresence ==
    (pc = "rows" /\ HasAssociations(schema)) =>
        \A i \in 1..Len(rows) :
            /\ ( /\ Len(KidsNamed(rows[i], "associations")) = 1
                 /\ KidsNamed(rows[i], "associations")[1].kids # <<>> )
                  => StructValidAt(AssociationsBuilder, i)
            /\ StructNullAt(AssociationsBuilder, i)
                  => KidsNamed(rows[i], "associations") = <<>>

\* C9: the list decoded from the element of a Multilingual field holds exactly
\* one pair per `language` child and no other entries.
C9_PairPerLanguageChild ==
    pc = "done" =>
        \A n \in ListFields : \A i \in 1..Len(rows) :
            Len(KidsNamed(rows[i], n)) = 1 =>
                Len(Unwrap(ColumnOf(n)[i])) =
                    Len(KidsNamed(KidsNamed(rows[i], n)[1], "language"))

\* C10: in the returned batch the `associations` entry of a row without an
\* `associations` element is null, and for a row with one each association's
\* entry is the list of one record per example-element child of its element.
C10_AssociationsEntry ==
    (pc = "done" /\ HasAssociations(schema)) =>
        \A i \in 1..Len(rows) :
            /\ KidsNamed(rows[i], "associations") = <<>>
                  => ColumnOf("associations")[i] = None
            /\ Len(KidsNamed(rows[i], "associations")) = 1 =>
                  /\ ColumnOf("associations")[i] # None
                  /\ \A a \in 1..Len(schema.associations) :
                        LET cs == KidsNamed(KidsNamed(rows[i], "associations")[1],
                                            schema.associations[a].name)
                        IN  Len(cs) = 1 =>
                              /\ Unwrap(ColumnOf("associations")[i])[a] # None
                              /\ Len(Unwrap(Unwrap(ColumnOf("associations")[i])[a]))
                                    = Len(KidsNamed(cs[1], schema.associations[a].element_name))

\* Schema3::to_arrow2: the fields of the descriptor, by name and arrow type
schema_to_arrow2(s) ==
    [k \in 1..Len(s.fields) |->
        [name |-> s.fields[k].name, dt |-> to_arrow2(s.fields[k].data_type)]]
    \o (IF HasAssociations(s) THEN <<[name |-> "associations", dt |-> "Struct"]>>
        ELSE <<>>)

\* C11: for the schema inferred from the sample, the returned batch has exactly
\* one column per field of the descriptor Schema3::to_arrow2 yields (the
\* declared fields in schema order, then the `associations` struct column), and
\* column k holds the data of descriptor field k, built with that field's type.
C11_ColumnPerDescriptorField ==
    (pc = "done" /\ s3.ok) =>
        /\ Len(batch) = Len(schema_to_arrow2(s3.v))
        /\ \A k \in 1..Len(batch) :
              /\ schema_to_arrow2(s3.v)[k].name \in DOMAIN h
              /\ batch[k] = Entries(h[schema_to_arrow2(s3.v)[k].name].array)
              /\ h[schema_to_arrow2(s3.v)[k].name].array.dt = schema_to_arrow2(s3.v)[k].dt

\* the field definitions of the sample: the element children of the container
FieldNodes == IF sample.kids = <<>> THEN <<>> ELSE sample.kids[1].kids
DataNodes == SelectSeq(FieldNodes, LAMBDA n : n.tag # "associations")

\* the primitive the format attribute of the node resolves to, if any, by the
\* table of schema3 and by the table of schema2
FormatPrimitive3(n) ==
    IF IsSome(n.format) /\ from_string(Unwrap(n.format)).ok
       /\ type_from_format(from_string(Unwrap(n.format)).v).ok
    THEN Some(type_from_format(from_string(Unwrap(n.format)).v).v)
    ELSE None
FormatPrimitive2(n) ==
    IF IsSome(n.format) /\ from_string(Unwrap(n.format)).ok
       /\ from_format(from_string(Unwrap(n.format)).v).ok
    THEN Some(from_format(from_string(Unwrap(n.format)).v).v)
    ELSE None

\* the children of the node are language entries
LanguageEntries(n) ==
    /\ n.kids # <<>>
    /\ \A k \in 1..Len(n.kids) : n.kids[k].tag = "language"
    /\ n.kids[1].kids = <<>>
    /\ IsSome(n.kids[1].id)

\* the decision list of the columnar inference for a field definition, and
\* the part of it that applies to the fields of an association
Simple3(n) ==
    IF IsSome(FormatPrimitive3(n)) THEN Unwrap(FormatPrimitive3(n))
    ELSE IF IsSome(type_from_name(n.tag)) THEN Unwrap(type_from_name(n.tag))
    ELSE "Utf8"
Classified3(n) ==
    IF has_language_child(n) THEN "MultilingualUtf8" ELSE Simple3(n)

RECURSIVE Classified2(_)
\* the decision list of the JSON-tree inference for a field definition
Classified2(n) ==
    IF LanguageEntries(n) THEN Language(ParseU32(Unwrap(n.kids[1].id)).v)
    ELSE IF IsSome(n.nodeType)
    THEN List(F2(n.kids[1].tag, Classified2(n.kids[1])))
    ELSE IF n.kids # <<>>
    THEN Rec2([k \in 1..Len(n.kids) |-> F2(n.kids[k].tag, Classified2(n.kids[k]))])
    ELSE IF IsSome(FormatPrimitive2(n)) THEN Unwrap(FormatPrimitive2(n))
    ELSE IF HasIdInName(Spelling[n.tag]) THEN P2("UInt32")
    ELSE P2("Utf8")

\* the fields inferred for the field definitions, after the synthetic id
Inferred3 == Tail(s3.v.fields)
Inferred2 == Tail(s2.v.fields[1].ty.fields)

\* C12 as stated: a field definition whose format attribute resolves to a
\* primitive is inferred as that primitive, whatever element children it has.
C12_FormatFirst ==
    /\ (s3 # NoResult /\ s3.ok) =>
          \A k \in 1..Len(DataNodes) :
              IsSome(FormatPrimitive3(DataNodes[k])) =>
                  Inferred3[k].data_type = Unwrap(FormatPrimitive3(DataNodes[k]))
    /\ (s2 # NoResult /\ s2.ok) =>
          \A k \in 1..Len(FieldNodes) :
              IsSome(FormatPrimitive2(FieldNodes[k])) =>
                  Inferred2[k].ty = Unwrap(FormatPrimitive2(FieldNodes[k]))

\* C12, amended: the structure of a field definition is looked at before its
\* format attribute.  The JSON-tree inference classifies by the first match of
\* Multilingual, List (nodeType marker), Record, format primitive, name
\* heuristic, Utf8; the columnar inference by the first match of Multilingual,
\* format primitive, name heuristic, Utf8.  A format attribute decides the type
\* only of a field definition without such structure.
C12_StructureFirst ==
    /\ (s3 # NoResult /\ s3.ok) =>
          Inferred3 = [k \in 1..Len(DataNodes) |->
                          F3(DataNodes[k].tag, Classified3(DataNodes[k]))]
    /\ (s2 # NoResult /\ s2.ok) =>
          Inferred2 = [k \in 1..Len(FieldNodes) |->
                          F2(FieldNodes[k].tag, Classified2(FieldNodes[k]))]

\* a field definition with language entries and a format attribute that
\* resolves to a primitive has been inferred as Multilingual by both
C12_Witness ==
    /\ s3 # NoResult /\ s3.ok /\ s2 # NoResult /\ s2.ok
    /\ Len(FieldNodes) = 1
    /\ IsSome(FormatPrimitive3(FieldNodes[1]))
    /\ IsSome(FormatPrimitive2(FieldNodes[1]))
    /\ LanguageEntries(FieldNodes[1])
    /\ Inferred3[1].data_type = "MultilingualUtf8"
    /\ Inferred2[1].ty.t = "Language"

\* C13: every successfully inferred schema has the synthetic field id: UInt32
\* as the first field of the record that describes one row: the field list of
\* a Schema3, the Record of the first field of a schema2 Schema.
C13_IdFirst ==
    /\ (s3 # NoResult /\ s3.ok) => s3.v.fields[1] = F3("id", "UInt32")
    /\ (s2 # NoResult /\ s2.ok) =>
          /\ s2.v.fields[1].ty.t = "Record"
          /\ s2.v.fields[1].ty.fields[1] = F2("id", P2("UInt32"))

\* both inferences succeeded on a sample whose first field definition is not
\* an id, and the row record holds the id and then that field
C13_Witness ==
    /\ s3 # NoResult /\ s3.ok /\ s2 # NoResult /\ s2.ok
    /\ FieldNodes # <<>>
    /\ FieldNodes[1].tag = "price"
    /\ Len(s3.v.fields) = 2 /\ s3.v.fields[2].name = "price"
    /\ Len(s2.v.fields[1].ty.fields) = 2 /\ s2.v.fields[1].ty.fields[2].name = "price"

\* the children of the <associations> field definitions of the sample, in order
RECURSIVE Flatten(_)
Flatten(seqs) == IF seqs = <<>> THEN <<>> ELSE Head(seqs) \o Flatten(Tail(seqs))
AssociationNodes ==
    Flatten([k \in 1..Len(SelectSeq(FieldNodes, LAMBDA n : n.tag = "associations")) |->
                SelectSeq(FieldNodes, LAMBDA n : n.tag = "associations")[k].kids])

\* the Association an association node stands for
AssociationOf(a) ==
    [name |-> a.tag,
     element_name |-> a.kids[1].tag,
     fields |-> [k \in 1..Len(a.kids[1].kids) |->
                    F3(a.kids[1].kids[k].tag, Simple3(a.kids[1].kids[k]))]]

NamesOf(fields) == {fields[k].name : k \in 1..Len(fields)}

Distinct(fields) ==
    \A a, b \in 1..Len(fields) : a # b => fields[a].name # fields[b].name

RECURSIVE DistinctWithin(_)
\* the field names of every Record of a schema2 type are pairwise distinct
DistinctWithin(ty) ==
    CASE ty.t = "Record" -> /\ Distinct(ty.fields)
                            /\ \A k \in 1..Len(ty.fields) : DistinctWithin(ty.fields[k].ty)
      [] ty.t = "List"   -> DistinctWithin(ty.field.ty)
      [] OTHER           -> TRUE

\* C15: in every inferred schema the field names of each Record are pairwise
\* distinct: the top-level fields with the synthetic id, the fields of nested
\* records, the fields of each association.  A sample with duplicate sibling
\* names where uniqueness is required makes the inference fail instead.
C15_DistinctFieldNames ==
    /\ (s3 # NoResult /\ s3.ok) =>
          /\ Distinct(s3.v.fields)
          /\ \A a \in 1..Len(s3.v.associations) : Distinct(s3.v.associations[a].fields)
    /\ (s2 # NoResult /\ s2.ok) => DistinctWithin(Rec2(s2.v.fields))

\* the format attribute is no identifier of the Format enum
NoIdentifier(n) == IsSome(n.format) /\ ~from_string(Unwrap(n.format)).ok

\* the format attribute is an identifier the table resolves to no primitive:
\* the table of schema3 (columnar = TRUE) or the table of schema2
Unsupported(format, columnar) ==
    /\ IsSome(format)
    /\ from_string(Unwrap(format)).ok
    /\ IF columnar THEN ~type_from_format(from_string(Unwrap(format)).v).ok
                   ELSE ~from_format(from_string(Unwrap(format)).v).ok

RECURSIVE WithoutUnsupported(_, _)
\* the sample with the unsupported format attributes taken off
WithoutUnsupported(n, columnar) ==
    [tag |-> n.tag,
     format |-> IF Unsupported(n.format, columnar) THEN None ELSE n.format,
     nodeType |-> n.nodeType, id |-> n.id, text |-> n.text,
     kids |-> [k \in 1..Len(n.kids) |-> WithoutUnsupported(n.kids[k], columnar)]]

RECURSIVE HasUnsupported(_, _)
HasUnsupported(n, columnar) ==
    \/ Unsupported(n.format, columnar)
    \/ \E k \in 1..Len(n.kids) : HasUnsupported(n.kids[k], columnar)

\* the field definitions of the associations of the sample, in order
AssociationFieldNodes ==
    Flatten([k \in 1..Len(AssociationNodes) |->
                IF AssociationNodes[k].kids = <<>> THEN <<>>
                ELSE AssociationNodes[k].kids[1].kids])

\* a format attribute the columnar inference reads, or the JSON-tree inference
\* reads, is unparsable
UnparsableRead3 ==
    \/ \E k \in 1..Len(DataNodes) :
          NoIdentifier(DataNodes[k]) /\ ~has_language_child(DataNodes[k])
    \/ \E k \in 1..Len(AssociationFieldNodes) : NoIdentifier(AssociationFieldNodes[k])
UnparsableRead2 ==
    \/ \E k \in 1..Len(FieldNodes) : NoIdentifier(FieldNodes[k])
    \/ \E k \in 1..Len(AssociationFieldNodes) : NoIdentifier(AssociationFieldNodes[k])

\* a sample of one field definition without children whose format attribute
\* is unparsable or unsupported
BadFormatLeaf(columnar) ==
    /\ Len(FieldNodes) = 1
    /\ FieldNodes[1].kids = <<>>
    /\ FieldNodes[1].tag # "associations"
    /\ NoIdentifier(FieldNodes[1]) \/ Unsupported(FieldNodes[1].format, columnar)

\* C16 as stated: one of the two inferences is lenient, an unparsable or
\* unsupported format attribute never making it fail, and the other is strict,
\* such an attribute always making it fail.
C16_PolicyByPathway ==
    (s3 # NoResult /\ s2 # NoResult) =>
        \/ /\ BadFormatLeaf(TRUE) => s3.ok
           /\ BadFormatLeaf(FALSE) => ~s2.ok
        \/ /\ BadFormatLeaf(FALSE) => s2.ok
           /\ BadFormatLeaf(TRUE) => ~s3.ok

\* C16, amended: the two policies are told apart by the kind of value, the
\* same way in both inferences.  A format attribute that is no identifier of
\* the Format enum makes the inference that reads it fail; an identifier that
\* the table resolves to no primitive is no hint: the result is the one for
\* the sample without the attribute.
C16_PolicyByKind ==
    /\ s3 # NoResult =>
          /\ UnparsableRead3 => ~s3.ok
          /\ s3 = schema3_parse_schema(WithoutUnsupported(sample, TRUE))
    /\ s2 # NoResult =>
          /\ UnparsableRead2 => ~s2.ok
          /\ s2 = schema2_parse_schema(WithoutUnsupported(sample, FALSE))

\* <id format="isEmail"/>: unsupported by both tables, inferred by both from
\* the name
C16_Witness ==
    /\ s3 # NoResult /\ s3.ok /\ s2 # NoResult /\ s2.ok
    /\ Len(FieldNodes) = 1
    /\ FieldNodes[1].tag = "id"
    /\ FieldNodes[1].format = Some("isEmail")
    /\ HasUnsupported(sample, TRUE) /\ HasUnsupported(sample, FALSE)
    /\ Inferred3[1].data_type = "UInt32"
    /\ Inferred2[1].ty = P2("UInt32")

\* what a lookup in a Format table answers: a primitive, named as the arrow
\* data type, or "unsupported"
Answer3(r) == IF r.ok THEN r.v ELSE "unsupported"
Answer2(r) ==
    IF ~r.ok THEN "unsupported" ELSE IF r.v.t = "Bool" THEN "Boolean" ELSE r.v.t

\* the three tables answer alike for the identifier
SameAnswer(f) ==
    /\ Answer3(to_arrow(f)) = Answer2(from_format(f))
    /\ Answer2(from_format(f)) = Answer3(type_from_format(f))

\* C17: the Format Table is one total function on the closed set of
\* identifiers: Format::to_arrow, schema2's Type::from_format and schema3's
\* type_from_format answer alike for every identifier the inferences look up,
\* and a string outside the set does not parse as a Format.
C17_OneTable ==
    (s3 # NoResult /\ s2 # NoResult) =>
        \A k \in 1..Len(FieldNodes) :
            IsSome(FieldNodes[k].format) =>
                IF Unwrap(FieldNodes[k].format) \in DOMAIN FormatNames
                THEN /\ from_string(Unwrap(FieldNodes[k].format)).ok
                     /\ SameAnswer(from_string(Unwrap(FieldNodes[k].format)).v)
                ELSE ~from_string(Unwrap(FieldNodes[k].format)).ok

\* the JSON value an entry of a column of the data type stands for
JsonOf(data_type, entry) ==
    IF IsNone(entry) THEN JNull
    ELSE CASE data_type = "Utf8"    -> JStr(Unwrap(entry))
           [] data_type = "Boolean" -> JBool(Unwrap(entry))
           [] OTHER                 -> JNum(Unwrap(entry))

\* line i of the JSON-lines output: the object of row i, and the value it
\* holds for the field (null when the object has no such key)
JsonRow(i) == jl.v[i].v[rows[i].tag].v
JsonField(i, n) == IF n \in DOMAIN JsonRow(i) THEN JsonRow(i)[n] ELSE JNull

SameJson(a, b) ==
    /\ a.j = b.j
    /\ a.j # "null" => a.v = b.v

ScalarFields == {n \in FieldNames : TypeOf(n) # "MultilingualUtf8"}

\* C18: with both schemas inferred from the same sample, a data document that
\* the JSON-tree path and the columnar path both accept yields the same value
\* for every scalar field of every row.
C18_ScalarsAgree ==
    (pc = "done" /\ jl.st = "ok") =>
        \A n \in ScalarFields : \A i \in 1..Len(rows) :
            SameJson(JsonField(i, n), JsonOf(TypeOf(n), ColumnOf(n)[i]))

\* the rows of Scenario 1: <element><name>x</name></element>, <element/>,
\* <element><name>z</name></element>
SimpleRows ==
    << El("element", None, None, <<Leaf("name", Some(tX))>>),
       El("element", None, None, <<>>),
       El("element", None, None, <<Leaf("name", Some(tZ))>>) >>

IsPrefix(s, u) == Len(s) <= Len(u) /\ s = SubSeq(u, 1, Len(s))

\* C19 as stated: with the schema inferred from the sample <a><name/></a> the
\* three rows are decoded without error, the inference having found the field
\* `name`.
C19_SampleAsWritten ==
    (sample = S("a", <<S("name", <<>>)>>) /\ IsPrefix(rows, SimpleRows)) =>
        /\ "name" \in FieldNames
        /\ s2.ok
        /\ pc \in {"rows", "done"}

\* C19, amended: with the schema inferred from the sample
\* <a><element><name/></element></a>, whose container <element> holds the
\* field definition, the data of the three rows decodes to the column
\* name = [x, null, z] and the column id = [null, null, null]; the JSON-tree
\* path accepts the same sample and document.
C19_SimpleResponse ==
    sample = S("a", <<S("element", <<S("name", <<>>)>>)>>) =>
        /\ s3 = Ok([fields |-> <<F3("id", "UInt32"), F3("name", "Utf8")>>,
                    associations |-> <<>>])
        /\ s2.ok
        /\ IsPrefix(rows, SimpleRows) => pc \in {"rows", "done"}
        /\ rows = SimpleRows =>
              /\ {BuilderLen(h[n].array) : n \in DOMAIN h} = {3}
              /\ Entries(h["name"].array) = <<Some(tX), None, Some(tZ)>>
              /\ Entries(h["id"].array) = <<None, None, None>>
              /\ pc = "done" =>
                    batch = << <<None, None, None>>, <<Some(tX), None, Some(tZ)>> >>
              /\ jl.st # "err"

\* the three rows have been decoded and the batch was returned
C19_Witness ==
    /\ sample = S("a", <<S("element", <<S("name", <<>>)>>)>>)
    /\ rows = SimpleRows
    /\ pc = "done"
    /\ ColumnOf("name") = <<Some(tX), None, Some(tZ)>>
    /\ ColumnOf("id") = <<None, None, None>>
    /\ jl.st = "ok"

RECURSIVE PathsBelow(_, _)
\* the sequences of element names from the element at the end of `path` down
\* to each element of its subtree
PathsBelow(path, n) ==
    {path} \cup UNION {PathsBelow(Append(path, n.kids[k].tag), n.kids[k]) :
                          k \in 1..Len(n.kids)}

\* the paths from the document root down to each element of the sample
RootPaths == PathsBelow(<<sample.tag>>, sample)

\* the error carries a path from the document root down to an element
CarriesRootPath(e) == IsSome(e.ctx) /\ Unwrap(e.ctx) \in RootPaths

\* C20: every error of the schema inference, raised by a navigator operation
\* or by the inference itself, carries the sequence of element names from the
\* document root down to the failing element.
C20_ErrorsCarryPath ==
    /\ (s2 # NoResult /\ ~s2.ok) => CarriesRootPath(s2)
    /\ (s3 # NoResult /\ ~s3.ok) => CarriesRootPath(s3)

RECURSIVE NodesBelow(_)
\* the elements of the subtree of n
NodesBelow(n) == {n} \cup UNION {NodesBelow(n.kids[k]) : k \in 1..Len(n.kids)}

\* the elements of the sample document
SampleNodes == NodesBelow(sample)

\* the tag names of the element children of n, and whether each occurs once
ChildTags(n) == {n.kids[k].tag : k \in 1..Len(n.kids)}
UniqueTags(n) == Cardinality(ChildTags(n)) = Len(n.kids)

\* C21: on an element whose children have pairwise different tag names,
\* uniquely_named_children returns all the children in document order and
\* uniquely_named_children_map returns the same children by name; on an
\* element with a repeated tag name among its children both return an error.
C21_UniqueOrError ==
    \A n \in SampleNodes :
        LET seq(r) == [k \in 1..Len(r.v) |-> r.v[k].node]
            both(r, m) ==
                IF UniqueTags(n)
                THEN /\ r.ok /\ seq(r) = n.kids
                     /\ m.ok /\ DOMAIN m.v = ChildTags(n)
                     /\ {m.v[t] : t \in DOMAIN m.v} = Range(n.kids)
                     /\ \A t \in DOMAIN m.v : m.v[t].tag = t
                ELSE ~r.ok /\ ~m.ok
        IN  both(uniquely_named_children(ParserNew(n)),
                 uniquely_named_children_map(n))

\* the inference has met a field definition with two children of one name
\* and failed with the error of uniquely_named_children on it
C21_Witness ==
    /\ s2 # NoResult
    /\ ~s2.ok
    /\ \E n \in SampleNodes :
          /\ Len(n.kids) = 2 /\ ~UniqueTags(n)
          /\ ~uniquely_named_children(ParserNew(n)).ok
          /\ s2.ctx = Some(<<"product", n.tag>>)

\* the elements of the data document read so far
DataDocumentNodes == NodesBelow(Container(rows))

\* C22: only_same_named_children returns all the element children in document
\* order when they have one tag name, the empty sequence without an error when
\* there are none, and an error when two of them have different tag names;
\* a text node among the children does not change the result.
C22_SameNameOrError ==
    \A n \in DataDocumentNodes : \A t \in {None, Some(tWs), Some(tA)} :
        LET result(r) ==
                IF Cardinality(ChildTags(n)) <= 1
                THEN r.ok /\ r.v = n.kids
                ELSE ~r.ok
        IN  result(only_same_named_children([n EXCEPT !.text = t]))

\* the JSON decoders have met a multilingual element whose children are a
\* <language> and an <other>, with text around them, and failed; the row
\* before held a multilingual element without children
C22_Witness ==
    /\ Len(rows) = 2
    /\ jl.st = "err" /\ jt.st = "err"
    /\ rows[1].kids = <<El("name", None, None, <<>>)>>
    /\ \E n \in Range(rows[2].kids) :
          /\ n.tag = "name" /\ IsSome(n.text)
          /\ ChildTags(n) = {"language", "other"}

\* the string of the command line, and its parts around the first '='
Arg == Unwrap(cli.arg)
ArgName == Unwrap(split_once(Arg, "="))[1]
ArgRest == Unwrap(split_once(Arg, "="))[2]

RECURSIVE Escaping(_, _)
\* character i of s is a backslash that makes the next character literal:
\* one that is not itself made literal by the backslash before it
Escaping(s, i) == s[i] = "\\" /\ (i = 1 \/ ~Escaping(s, i - 1))

\* character i of s is made literal by the backslash before it
Literal(s, i) == i > 1 /\ Escaping(s, i - 1)

\* the positions of the unescaped '|' of s
Separators(s) == {i \in 1..Len(s) : s[i] = "|" /\ ~Literal(s, i)}

\* s without the backslashes that make a character literal
Unescaped(s, from, to) ==
    LET keep == {i \in from..to : Literal(s, i) \/ s[i] # "\\"}
        at(k) == CHOOSE i \in keep : Cardinality({j \in keep : j < i}) = k - 1
    IN  [k \in 1..Cardinality(keep) |-> s[at(k)]]

\* s split at every unescaped '|': one value before the first separator, one
\* after each separator, empty values included
SplitValues(s) ==
    LET seps == Separators(s)
        start(k) == IF k = 1 THEN 1
                    ELSE 1 + CHOOSE i \in seps : Cardinality({j \in seps : j < i}) = k - 2
        stop(k) == IF k = Cardinality(seps) + 1 THEN Len(s)
                   ELSE (CHOOSE i \in seps : Cardinality({j \in seps : j < i}) = k - 1) - 1
    IN  [k \in 1..(Cardinality(seps) + 1) |-> Unescaped(s, start(k), stop(k))]

\* the string ends in a backslash with nothing after it to make literal
DanglingBackslash(s) == s # <<>> /\ Escaping(s, Len(s))

\* C23: FieldValueIn::from_str fails on a string without '=', with nothing
\* before the first '=' or with nothing after it; on any other string
\* `name=rest` (whose last backslash, if any, has a character after it) it
\* returns the name and the values of `rest` split at every unescaped '|',
\* the empty values included.
C23_SplitAtUnescapedBar ==
    (cli.pc \in {"schema", "exit"} /\ IsSome(cli.arg)) =>
        IF IsNone(split_once(Arg, "=")) THEN ~cli.fvi.ok
        ELSE IF ArgName = <<>> \/ ArgRest = <<>> THEN ~cli.fvi.ok
        ELSE ~DanglingBackslash(ArgRest) =>
                cli.fvi = Ok([field_name |-> ArgName, values |-> SplitValues(ArgRest)])

\* the elements named n among the children of the elements els, in order
ChildrenNamed(els, n) == Flatten([k \in 1..Len(els) |-> KidsNamed(els[k], n)])

\* all the children of the elements els, in order
ChildrenOf(els) == Flatten([k \in 1..Len(els) |-> els[k].kids])

\* every subfield column of the struct builder b has len entries
SubfieldLengths(b, len) ==
    \A j \in 1..Len(b.values) : BuilderLen(b.values[j]) = len

\* C24: while the decode goes on without an error, every subfield column of
\* a struct holds one entry per element decoded by parse_field_struct into
\* that struct: the lists of `associations` one per <associations> element,
\* the fields of an association one per element of its list, @id and #text
\* of a multilingual field one per child of its element.
C24_SubfieldPerRecordElement ==
    pc \in {"rows", "done"} =>
        /\ HasAssociations(schema) =>
              /\ SubfieldLengths(AssociationsBuilder,
                                 Len(ChildrenNamed(rows, "associations")))
              /\ \A a \in 1..Len(schema.associations) :
                    SubfieldLengths(AssociationList(a).inner,
                        Len(ChildrenOf(ChildrenNamed(
                                ChildrenNamed(rows, "associations"),
                                schema.associations[a].name))))
        /\ \A n \in ListFields :
              SubfieldLengths(h[n].array.inner,
                              Len(ChildrenOf(ChildrenNamed(rows, n))))

\* the node has exactly one element child, named language, with a numeric id
\* attribute and without element children
OneLanguageEntry(n) ==
    /\ Len(n.kids) = 1
    /\ n.kids[1].tag = "language"
    /\ IsSome(n.kids[1].id) /\ ParseU32(Unwrap(n.kids[1].id)).ok
    /\ n.kids[1].kids = <<>>

\* the id attribute of the first child of the node is a number
NumericId(n) == ParseU32(Unwrap(n.kids[1].id)).ok

\* C25 as stated: a field definition without a usable format hint is
\* Multilingual exactly when it has one element child, named language, with a
\* numeric id and no element children; a single field definition whose only
\* child is a leaf is never an error.
C25_ExactlyOneLanguage ==
    /\ (s3 # NoResult /\ s3.ok) =>
          \A k \in 1..Len(DataNodes) :
              IsNone(FormatPrimitive3(DataNodes[k])) =>
                  (Inferred3[k].data_type = "MultilingualUtf8"
                      <=> OneLanguageEntry(DataNodes[k]))
    /\ (s2 # NoResult /\ s2.ok) =>
          \A k \in 1..Len(FieldNodes) :
              IsNone(FormatPrimitive2(FieldNodes[k])) =>
                  (Inferred2[k].ty.t = "Language" <=> OneLanguageEntry(FieldNodes[k]))
    /\ (/\ s2 # NoResult /\ Len(FieldNodes) = 1 /\ IsNone(FieldNodes[1].format)
        /\ Len(FieldNodes[1].kids) = 1 /\ FieldNodes[1].kids[1].kids = <<>>)
          => s2.ok

\* C25, amended: whatever its format hint, a field definition is Multilingual
\* for the columnar inference exactly when one of its children is named
\* language and has an id attribute, and for the JSON-tree inference exactly
\* when it has one or more children, all named language, the first with an id
\* attribute and without children; there the id of the first must be a
\* number, or the inference fails.
C25_LanguageEntries ==
    /\ (s3 # NoResult /\ s3.ok) =>
          \A k \in 1..Len(DataNodes) :
              Inferred3[k].data_type = "MultilingualUtf8"
                  <=> \E c \in Range(DataNodes[k].kids) :
                         c.tag = "language" /\ IsSome(c.id)
    /\ (s2 # NoResult /\ s2.ok) =>
          \A k \in 1..Len(FieldNodes) :
              /\ Inferred2[k].ty.t = "Language" <=> LanguageEntries(FieldNodes[k])
              /\ LanguageEntries(FieldNodes[k]) => NumericId(FieldNodes[k])
    /\ (/\ s2 # NoResult
        /\ \E k \in 1..Len(FieldNodes) :
              LanguageEntries(FieldNodes[k]) /\ ~NumericId(FieldNodes[k]))
          => ~s2.ok

\* both inferences have classified a field definition with two language
\* entries as Multilingual
C25_Witness ==
    /\ s3 # NoResult /\ s3.ok /\ s2 # NoResult /\ s2.ok
    /\ Len(FieldNodes) = 1
    /\ FieldNodes[1].kids = <<SLanguage(t1), SLanguage(t2)>>
    /\ IsNone(FieldNodes[1].format)
    /\ Inferred3[1].data_type = "MultilingualUtf8"
    /\ Inferred2[1].ty = Language(1)

\* the node carries the nodeType marker, or has one or more element children
\* of one name
ListShaped(n) ==
    n.kids # <<>> /\ (IsSome(n.nodeType) \/ Cardinality(ChildTags(n)) = 1)

\* the node is matched by the Multilingual rule, as stated or as coded
MultilingualShaped(n) ==
    OneLanguageEntry(n) \/ LanguageEntries(n) \/ has_language_child(n)

\* the types a Schema3 field has that are no list
ScalarTypes3 == {"Utf8", "UInt32", "Int32", "Float64", "Boolean", "Date"}

\* C26: a field definition matched neither by the format rule nor by the
\* Multilingual rule, with the nodeType marker or with one or more children
\* of one name, is inferred as a List whose element is the type inferred
\* for its first child, and the inference does not fail on it.
C26_ListOfRepresentative ==
    /\ (s2 # NoResult /\ s2.ok) =>
          \A k \in 1..Len(FieldNodes) :
              (/\ IsNone(FormatPrimitive2(FieldNodes[k]))
               /\ ~MultilingualShaped(FieldNodes[k])
               /\ ListShaped(FieldNodes[k]))
                 => Inferred2[k].ty = List(F2(FieldNodes[k].kids[1].tag,
                                              Classified2(FieldNodes[k].kids[1])))
    /\ (/\ s2 # NoResult /\ Len(FieldNodes) = 1
        /\ IsNone(FieldNodes[1].format)
        /\ ~MultilingualShaped(FieldNodes[1])
        /\ ListShaped(FieldNodes[1])
        /\ \A c \in Range(FieldNodes[1].kids) : c.kids = <<>>)
          => s2.ok
    /\ (s3 # NoResult /\ s3.ok) =>
          \A k \in 1..Len(DataNodes) :
              (/\ IsNone(FormatPrimitive3(DataNodes[k]))
               /\ ~MultilingualShaped(DataNodes[k])
               /\ ListShaped(DataNodes[k]))
                 => Inferred3[k].data_type \notin ScalarTypes3

\* the type the name heuristic gives a tag name
NameType(tag) ==
    IF starts_with(Spelling[tag], <<"i", "d">>) \/ ends_with(Spelling[tag], <<"i", "d">>)
    THEN "UInt32"
    ELSE IF \/ starts_with(Spelling[tag], <<"d", "a", "t", "e", "_">>)
            \/ ends_with(Spelling[tag], <<"_", "d", "a", "t", "e">>)
    THEN "Date"
    ELSE "Utf8"

\* C27: a field definition without element children whose format attribute
\* gives no type is inferred as UInt32 when its tag name starts or ends with
\* `id`, else as Date when it starts with `date_` or ends with `_date`, else
\* as Utf8.
C27_NameHeuristic ==
    /\ (s3 # NoResult /\ s3.ok) =>
          \A k \in 1..Len(DataNodes) :
              (DataNodes[k].kids = <<>> /\ IsNone(FormatPrimitive3(DataNodes[k])))
                 => Inferred3[k].data_type = NameType(DataNodes[k].tag)
    /\ (s2 # NoResult /\ s2.ok) =>
          \A k \in 1..Len(FieldNodes) :
              (FieldNodes[k].kids = <<>> /\ IsNone(FormatPrimitive2(FieldNodes[k])))
                 => Inferred2[k].ty = P2(NameType(FieldNodes[k].tag))

\* the inference of the pathway the command runs has returned a schema
SchemaSucceeded ==
    IF cli.arrow2 THEN s3 # NoResult /\ s3.ok ELSE s2 # NoResult /\ s2.ok

\* the data document has been asked for, or a decoder has been run on it
DataRequested == \E k \in 1..Len(cli.requests) : cli.requests[k] = "data"
DecodeAttempted == pc # "idle" \/ jl # NoResult

\* the decoder of the pathway has returned its rows
DecodeSucceeded ==
    IF cli.arrow2 THEN pc = "done" ELSE jl # NoResult /\ jl.st = "ok"

\* C28: in a run of the Get command the data document is asked for and
\* decoded only after the schema was fetched and inferred with success, and
\* the output is written only after the data was decoded with success; a run
\* that failed at any step has written nothing.
C28_SchemaThenDataThenOutput ==
    /\ (DataRequested \/ DecodeAttempted \/ cli.pc \in {"data", "output", "done"}) =>
          /\ SchemaSucceeded
          /\ cli.requests[1] = "schema"
    /\ (cli.written \/ cli.pc \in {"output", "done"}) =>
          /\ DecodeSucceeded
          /\ cli.requests = <<"schema", "data">>
    /\ cli.pc \in {"exit", "failed", "panic"} => ~cli.written
    /\ ~SchemaSucceeded => (rows = <<>> /\ batch = <<>>)

\* the schema was inferred, the data asked for, its decode failed on a row,
\* and the run ended without output
C28_Witness ==
    /\ cli.pc = "failed" /\ cli.arrow2
    /\ s3 # NoResult /\ s3.ok
    /\ cli.requests = <<"schema", "data">>
    /\ rows # <<>> /\ pc = "err"
    /\ ~cli.written

\* how the loop of parse_response_to_arrow over the rows read so far ends
RowLoop == DecodeRows(NewBuilders(schema), 0, rows)

\* C29: whatever the schema and the data document, the loop over the rows
\* ends in Ok or in an Err value: neither the assert_eq! on the column
\* lengths after a row nor the one in parse_field_struct fails, also when an
\* element has two children of one declared name.
C29_AssertionsHold == RowLoop.st # "panic"

\* C30: every non-null entry of the column of a Date field, a timestamp in
\* seconds, is the number of seconds from the Unix epoch to the date and time
\* written in the element of its row.
C30_SecondsSinceEpoch ==
    pc = "done" =>
        \A n \in FieldNames : TypeOf(n) = "Date" =>
            \A i \in 1..Len(rows) :
                (/\ Len(KidsNamed(rows[i], n)) = 1
                 /\ IsSome(KidsNamed(rows[i], n)[1].text)
                 /\ IsSome(ColumnOf(n)[i]))
                   => Unwrap(ColumnOf(n)[i]) =
                        timestamp(ParseNaiveDateTime(
                            Unwrap(KidsNamed(rows[i], n)[1].text)).v)

====
